---- MODULE Spec2Model ----
(***************************************************************************)
(* RDTI GA DOCX generation: input normalisation, record validation,        *)
(* payload shaping and the batch orchestrator (generateRDTIGADocx and      *)
(* renderDocxForProjects), modelled from the TypeScript sources.           *)
(***************************************************************************)
EXTENDS Naturals, Integers, Sequences, FiniteSets, TLC

VARIABLES
    projectsInput,  \* generateRDTIGADocx: the projectsInput argument
    options,        \* generateRDTIGADocx: the options argument
    pc,             \* where the call is
    projects,       \* result of normalizeProjectsInput
    nextToValidate, \* position of the validation loop (1-based)
    validProjects,  \* generateRDTIGADocx: validProjects
    errors,         \* generateRDTIGADocx: errors
    templateReads,  \* number of fs.readFileSync(templatePath) calls made
    templateBuffer, \* renderDocxForProjects: templateBuffer
    madeDirs,       \* directories fs.mkdirSync has created
    files,          \* output files on disk: path -> what was written
    nextToRender,   \* position of the render loop (1-based)
    outputPaths,    \* renderDocxForProjects: outputPaths
    results,        \* renderDocxForProjects: results
    renderErrors,   \* renderDocxForProjects: errors
    log,            \* the I/O and shaping steps taken, in order
    outcome,        \* completion of generateRDTIGADocx once pc is "done" or "thrown"
    vpc,            \* validateProject called alone: "idle" | "returned"
    vinput,         \* the raw record handed to validateProject
    vresult,        \* the completion of validateProject(vinput)
    called,         \* the function called on its own: "none" until one is called
    args,           \* the arguments of that call
    ret             \* what that call produced

gvars == <<projectsInput, options, pc, projects, nextToValidate, validProjects, errors, templateReads,
           templateBuffer, madeDirs, files, nextToRender, outputPaths, results, renderErrors,
           log, outcome>>
vvars == <<vpc, vinput, vresult>>
pvars == <<called, args, ret>>
vars == <<gvars, vvars, pvars>>

(***************************************************************************)
(* JavaScript values.  Every value is a record tagged by its typeof/shape, *)
(* so that absent (undefined), null, '' and non-empty strings stay         *)
(* distinct, as the code distinguishes them.                               *)
(***************************************************************************)
Undef == [t |-> "undefined"]
Null == [t |-> "null"]
Str(s) == [t |-> "string", s |-> s]
Num(n) == [t |-> "number", n |-> n]
Arr(items) == [t |-> "array", items |-> items]
Obj(f) == [t |-> "object", f |-> f]

isNullish(v) == v.t \in {"undefined", "null"}

\* JS truthiness of the values the model uses (if (owner), !descriptionSource)
Truthy(v) ==
    CASE v.t = "undefined" -> FALSE
      [] v.t = "null" -> FALSE
      [] v.t = "string" -> v.s # ""
      [] v.t = "number" -> v.n # 0
      [] OTHER -> TRUE

\* a ?? b
Coalesce(a, b) == IF isNullish(a) THEN b ELSE a

\* Array.isArray(v)
isArray(v) == v.t = "array"

\* obj[key] for a non-nullish obj; a missing property reads as undefined.
\* (Reading a property of null/undefined throws: see the Throws predicates.)
getFieldValue(obj, key) ==
    IF obj.t = "object" /\ key \in DOMAIN obj.f THEN obj.f[key] ELSE Undef

\* {...obj, key: v}
WithField(obj, key, v) ==
    Obj([k \in DOMAIN obj.f \cup {key} |-> IF k = key THEN v ELSE obj.f[k]])

\* obj with key deleted
WithoutField(obj, key) ==
    Obj([k \in DOMAIN obj.f \ {key} |-> obj.f[k]])

Range(seq) == {seq[i] : i \in 1..Len(seq)}

(***************************************************************************)
(* Completions of a call: a returned value or a thrown error.              *)
(***************************************************************************)
Returned(v) == [threw |-> FALSE, value |-> v]
Thrown(name, message) == [threw |-> TRUE, error |-> name, message |-> message]

(***************************************************************************)
(* validation.ts                                                           *)
(***************************************************************************)
requiredRootFields ==
    <<"uid", "name", "startDate", "endDate", "createdAt", "status",
      "companyId", "anzsrc", "projectOwner", "coreActivities",
      "supportingActivities">>

requiredOwnerFields ==
    <<"firstName", "lastName", "role", "contactPhoneCountry",
      "contactPhoneType", "phone", "email">>

requiredCoreFields ==
    <<"name", "description", "startDate", "endDate", "uncertainties",
      "approach", "intentions">>

requiredSupportingFields ==
    <<"name", "description", "startDate", "endDate", "definiition">>

Issue(field, message, type) ==
    [field |-> field, message |-> message, type |-> type]

\* ensurePresent without the value === '' test
ensurePresentNullishOnly(value, path, type) ==
    IF value.t = "undefined" \/ value.t = "null"
    THEN <<Issue(path, "Missing field: " \o path, type)>>
    ELSE <<>>

\* the issues ensurePresent pushes for one value (none or one)
ensurePresent(value, path, type) ==
    IF value.t = "undefined" \/ value.t = "null" \/ value = Str("")
    THEN <<Issue(path, "Missing field: " \o path, type)>>
    ELSE <<>>

RECURSIVE ensureFields(_, _, _, _)
\* for (const field of fields) ensurePresent(getFieldValue(obj, field), prefix + field, issues, 'error')
\* from the k-th field on
ensureFields(obj, fields, prefix, k) ==
    IF k > Len(fields) THEN <<>>
    ELSE ensurePresent(getFieldValue(obj, fields[k]), prefix \o fields[k], "error")
         \o ensureFields(obj, fields, prefix, k + 1)

\* getFieldValue(obj, field) dereferences obj: a TypeError when obj is null/undefined
ensureFieldsThrows(obj) == isNullish(obj)

RECURSIVE supportingIssues(_, _)
\* input.supportingActivities.forEach((activity, idx) => ...), from the idx-th (1-based) on
supportingIssues(items, idx) ==
    IF idx > Len(items) THEN <<>>
    ELSE ensureFields(items[idx], requiredSupportingFields,
                      "supportingActivities[" \o ToString(idx - 1) \o "].", 1)
         \o supportingIssues(items, idx + 1)

RECURSIVE coreIssuesFrom(_, _)
coreIssuesFrom(items, idx) ==
    IF idx > Len(items) THEN <<>>
    ELSE ensureFields(items[idx], requiredCoreFields,
                      "coreActivities[" \o ToString(idx - 1) \o "].", 1)
         \o coreIssuesFrom(items, idx + 1)

\* a validator that checks every core activity, not only the first
validateCoreIssuesOfEvery(input) ==
    LET core == getFieldValue(input, "coreActivities")
    IN  IF ~isArray(core) \/ Len(core.items) = 0
        THEN <<Issue("coreActivities", "A core activity is required", "error")>>
        ELSE coreIssuesFrom(core.items, 1)

validateCoreIssues(input) ==
    LET core == getFieldValue(input, "coreActivities")
    IN  IF ~isArray(core) \/ Len(core.items) = 0
        THEN <<Issue("coreActivities", "A core activity is required", "error")>>
        ELSE ensureFields(core.items[1], requiredCoreFields, "coreActivities[0].", 1)

\* input.description || input.projectDescription
validateDescriptionSourceFalsyFallback(input) ==
    IF Truthy(getFieldValue(input, "description"))
    THEN getFieldValue(input, "description")
    ELSE getFieldValue(input, "projectDescription")

\* const descriptionSource = input.description ?? input.projectDescription
validateDescriptionSource(input) ==
    Coalesce(getFieldValue(input, "description"), getFieldValue(input, "projectDescription"))

validateProjectThrows(input) ==
    LET core == getFieldValue(input, "coreActivities")
        sup == getFieldValue(input, "supportingActivities")
    IN  \/ ensureFieldsThrows(input)
        \/ isArray(core) /\ Len(core.items) > 0 /\ ensureFieldsThrows(core.items[1])
        \/ isArray(sup) /\ \E i \in 1..Len(sup.items) : ensureFieldsThrows(sup.items[i])

validateProject(input) ==
    IF validateProjectThrows(input)
    THEN Thrown("TypeError", "Cannot read properties of null or undefined")
    ELSE
      LET owner == getFieldValue(input, "projectOwner")
          sup == getFieldValue(input, "supportingActivities")
          descriptionSource == validateDescriptionSource(input)
          issues ==
              ensureFields(input, requiredRootFields, "", 1)
              \o (IF Truthy(owner)
                  THEN ensureFields(owner, requiredOwnerFields, "projectOwner.", 1)
                  ELSE <<>>)
              \o validateCoreIssues(input)
              \o (IF isArray(sup) THEN supportingIssues(sup.items, 1) ELSE <<>>)
              \o (IF ~Truthy(descriptionSource)
                  THEN <<Issue("description", "Missing field: description", "error")>>
                  ELSE <<>>)
          project ==
              WithField(
                WithField(input, "description", Coalesce(descriptionSource, Str(""))),
                "projectDescription",
                Coalesce(getFieldValue(input, "projectDescription"),
                         Coalesce(descriptionSource, Str(""))))
      IN  Returned([project |-> project, issues |-> issues])

(***************************************************************************)
(* projects.ts                                                             *)
(***************************************************************************)
\* a list value with its object identity: two lists with equal elements and different
\* ref are different objects (expect(result).toBe(projects))
List(ref, items) == [t |-> "array", ref |-> ref, items |-> items]

\* typeof value === 'object'
typeofObject(v) == v.t \in {"object", "array", "null"}

isProjectsPayload(value) ==
    Truthy(value) /\ typeofObject(value) /\ isArray(getFieldValue(value, "projects"))

InvalidInputShape ==
    "Input must be an array of projects or an object with a projects[] property"

\* normalizeProjectsInput returning a copy of the list instead of the list
normalizeProjectsInputCopies(value) ==
    IF isArray(value) THEN Returned(List(0, value.items))
    ELSE IF isProjectsPayload(value) THEN Returned(List(0, value.f.projects.items))
    ELSE Thrown("Error", InvalidInputShape)

normalizeProjectsInput(value) ==
    IF isArray(value) THEN Returned(value)
    ELSE IF isProjectsPayload(value) THEN Returned(value.f.projects)
    ELSE Thrown("Error", InvalidInputShape)

(***************************************************************************)
(* docx.ts                                                                 *)
(***************************************************************************)
Bool(b) == [t |-> "boolean", b |-> b]

yesStrings == {"yes", "y", "true", "1", "x", "checked", "ok"}
noStrings == {"no", "n", "false", "0"}

\* String.prototype.toLowerCase, one character at a time
upperCase == "ABCDEFGHIJKLMNOPQRSTUVWXYZ"
lowerCase == "abcdefghijklmnopqrstuvwxyz"

toLowerChar(c) ==
    IF \E k \in 1..Len(upperCase) : SubSeq(upperCase, k, k) = c
    THEN LET k == CHOOSE k \in 1..Len(upperCase) : SubSeq(upperCase, k, k) = c
         IN  SubSeq(lowerCase, k, k)
    ELSE c

RECURSIVE toLowerCase(_)
toLowerCase(s) ==
    IF s = "" THEN "" ELSE toLowerChar(SubSeq(s, 1, 1)) \o toLowerCase(Tail(s))

\* the white space String.prototype.trim removes, as far as the model's strings hold it
isWhiteSpace(c) == c \in {" ", "\t", "\n"}

RECURSIVE trimStart(_)
trimStart(s) ==
    IF s # "" /\ isWhiteSpace(SubSeq(s, 1, 1)) THEN trimStart(Tail(s)) ELSE s

RECURSIVE trimEnd(_)
trimEnd(s) ==
    IF s # "" /\ isWhiteSpace(SubSeq(s, Len(s), Len(s)))
    THEN trimEnd(SubSeq(s, 1, Len(s) - 1)) ELSE s

trim(s) == trimEnd(trimStart(s))

\* value.trim().toLowerCase()
trimLowerCase(s) == toLowerCase(trim(s))

parseBoolish(value) ==
    IF value.t = "boolean" THEN value
    ELSE IF value.t # "string" THEN Undef
    ELSE IF trimLowerCase(value.s) \in yesStrings THEN Bool(TRUE)
    ELSE IF trimLowerCase(value.s) \in noStrings THEN Bool(FALSE)
    ELSE Undef

\* formatYesNo consulting the no signal before the yes signal
formatYesNoNoSignalFirst(yes, no, fallback) ==
    LET yesParsed == parseBoolish(yes)
        noParsed == parseBoolish(no)
        isYes == IF noParsed # Undef THEN Bool(~noParsed.b)
                 ELSE IF yesParsed # Undef THEN yesParsed
                 ELSE fallback
    IN  IF isYes = Bool(TRUE) THEN [yesText |-> "YES", noText |-> ""]
        ELSE IF isYes = Bool(FALSE) THEN [yesText |-> "", noText |-> "NO"]
        ELSE [yesText |-> "Yes", noText |-> "No"]

\* formatYesNo that never consults the fallback
formatYesNoWithoutFallback(yes, no, fallback) ==
    LET yesParsed == parseBoolish(yes)
        noParsed == parseBoolish(no)
        isYes == IF yesParsed # Undef THEN yesParsed
                 ELSE IF noParsed # Undef THEN Bool(~noParsed.b)
                 ELSE Undef
    IN  IF isYes = Bool(TRUE) THEN [yesText |-> "YES", noText |-> ""]
        ELSE IF isYes = Bool(FALSE) THEN [yesText |-> "", noText |-> "NO"]
        ELSE [yesText |-> "Yes", noText |-> "No"]

formatYesNo(yes, no, fallback) ==
    LET yesParsed == parseBoolish(yes)
        noParsed == parseBoolish(no)
        isYes == IF yesParsed # Undef THEN yesParsed
                 ELSE IF noParsed # Undef THEN Bool(~noParsed.b)
                 ELSE fallback
    IN  IF isYes = Bool(TRUE) THEN [yesText |-> "YES", noText |-> ""]
        ELSE IF isYes = Bool(FALSE) THEN [yesText |-> "", noText |-> "NO"]
        ELSE [yesText |-> "Yes", noText |-> "No"]

\* a shaper that always uses the default formatter
formatIgnoresInjected(dateFormat, iso) == iso

\* a DateFormatter: the default is the identity; an injected one is applied to the
\* date text
format(dateFormat, iso) ==
    IF dateFormat = "default" THEN iso
    ELSE IF iso.t = "string" THEN Str(dateFormat \o "(" \o iso.s \o ")")
    ELSE Str(dateFormat \o "(" \o iso.t \o ")")

\* value?.key ?? ''
optionalField(obj, key) ==
    IF isNullish(obj) THEN Str("") ELSE Coalesce(getFieldValue(obj, key), Str(""))

\* the property reads of buildDocxTemplatePayload that raise a TypeError:
\* supportingActivities.length / .map / activity.name, coreActivities[0]
buildDocxTemplatePayloadThrows(project) ==
    LET sup == getFieldValue(project, "supportingActivities")
        core == getFieldValue(project, "coreActivities")
    IN  \/ isNullish(project)
        \/ ~isArray(sup)
        \/ isNullish(core)
        \/ \E i \in 1..Len(sup.items) : isNullish(sup.items[i])

\* a numbering that starts at 0
ActivityNumberFromZero(idx) == ToString(idx)

\* String(idx + 1), idx being the 0-based position in the list
ActivityNumber(idx) == ToString(idx + 1)

buildDocxTemplatePayload(project, dateFormat) ==
    LET projectName == Coalesce(getFieldValue(project, "projectName"), getFieldValue(project, "name"))
        sup == getFieldValue(project, "supportingActivities").items
        core == getFieldValue(project, "coreActivities")
        funding == formatYesNo(getFieldValue(project, "fundingYes"),
                               getFieldValue(project, "fundingNo"), Undef)
        supporting == formatYesNo(getFieldValue(project, "SupportingYes"),
                                  getFieldValue(project, "SupportingNo"),
                                  Bool(Len(sup) > 0))
        coreActivity == IF isArray(core) /\ Len(core.items) > 0 THEN core.items[1] ELSE Undef
    IN  [customerName |-> Coalesce(getFieldValue(project, "customerName"),
                                   Coalesce(getFieldValue(project, "companyId"), projectName)),
         projectName |-> projectName,
         projectDescription |-> Coalesce(getFieldValue(project, "projectDescription"),
                                         getFieldValue(project, "description")),
         estimatedSpend |-> Coalesce(getFieldValue(project, "estimatedSpend"), Str("TBD")),
         fundingYes |-> funding.yesText,
         fundingNo |-> funding.noText,
         SupportingYes |-> supporting.yesText,
         SupportingNo |-> supporting.noText,
         startDate |-> format(dateFormat, getFieldValue(project, "startDate")),
         endDate |-> format(dateFormat, getFieldValue(project, "endDate")),
         anzsrc |-> getFieldValue(project, "anzsrc"),
         projectOwner |-> getFieldValue(project, "projectOwner"),
         coreActivityName |-> optionalField(coreActivity, "name"),
         coreActivityStartDate |->
             IF Truthy(coreActivity)
             THEN format(dateFormat, getFieldValue(coreActivity, "startDate")) ELSE Str(""),
         coreActivityEndDate |->
             IF Truthy(coreActivity)
             THEN format(dateFormat, getFieldValue(coreActivity, "endDate")) ELSE Str(""),
         coreActivityDescription |-> optionalField(coreActivity, "description"),
         coreActivityUncertainties |-> optionalField(coreActivity, "uncertainties"),
         coreActivityApproach |-> optionalField(coreActivity, "approach"),
         coreActivityIntentions |-> optionalField(coreActivity, "intentions"),
         supportingActivities |-> Len(sup) > 0,
         supportingActivity |->
             [i \in 1..Len(sup) |->
                 [name |-> getFieldValue(sup[i], "name"),
                  startDate |-> format(dateFormat, getFieldValue(sup[i], "startDate")),
                  endDate |-> format(dateFormat, getFieldValue(sup[i], "endDate")),
                  description |-> getFieldValue(sup[i], "description"),
                  definiition |-> getFieldValue(sup[i], "definiition"),
                  ActivityNumber |-> ActivityNumber(i - 1)]]]

(***************************************************************************)
(* sanitize.ts                                                             *)
(***************************************************************************)
\* the line terminators '.' does not match, as far as the model's strings hold them
isLineTerminator(c) == c \in {"\n"}

\* the position in s of the '$' that closes /\$(.*?)\$/ opened just before s: the
\* first '$' with no line terminator before it, 0 when there is none
RECURSIVE closingDollar(_, _)
closingDollar(s, k) ==
    IF k > Len(s) THEN 0
    ELSE IF SubSeq(s, k, k) = "$" THEN k
    ELSE IF isLineTerminator(SubSeq(s, k, k)) THEN 0
    ELSE closingDollar(s, k + 1)

\* value.replace(/\$(.*?)\$/g, '$1'): matches are looked for from left to right, each
\* search resuming after the previous match
RECURSIVE replaceLatex(_)
replaceLatex(s) ==
    IF s = "" THEN ""
    ELSE LET k == closingDollar(Tail(s), 1)
         IN  IF SubSeq(s, 1, 1) = "$" /\ k > 0
             THEN SubSeq(Tail(s), 1, k - 1) \o replaceLatex(SubSeq(Tail(s), k + 1, Len(Tail(s))))
             ELSE SubSeq(s, 1, 1) \o replaceLatex(Tail(s))

\* the characters of the class of markdownPattern: asterisk, underscore, tilde (the
\* grave accent, the fourth, is not a character a string of this module can hold)
markdownPattern == {"*", "_", "~"}

\* .replace(markdownPattern, '')
RECURSIVE removeMarkdown(_)
removeMarkdown(s) ==
    IF s = "" THEN ""
    ELSE IF SubSeq(s, 1, 1) \in markdownPattern THEN removeMarkdown(Tail(s))
    ELSE SubSeq(s, 1, 1) \o removeMarkdown(Tail(s))

\* .replace(/\s+/g, ' ')
RECURSIVE collapseWhiteSpace(_)
collapseWhiteSpace(s) ==
    IF s = "" THEN ""
    ELSE IF isWhiteSpace(SubSeq(s, 1, 1))
    THEN " " \o collapseWhiteSpace(trimStart(s))
    ELSE SubSeq(s, 1, 1) \o collapseWhiteSpace(Tail(s))

sanitizePlainText(value) ==
    IF value.t # "string" THEN Str("")
    ELSE Str(trim(collapseWhiteSpace(removeMarkdown(replaceLatex(value.s)))))

\* path.join(dir, name) on a directory given by its segments: '.' segments are
\* dropped by the normalisation, the rest are joined with '/'
RECURSIVE joinSegments(_)
joinSegments(segs) ==
    IF Len(segs) = 0 THEN ""
    ELSE IF Head(segs) = "." THEN joinSegments(Tail(segs))
    ELSE Head(segs) \o "/" \o joinSegments(Tail(segs))

pathJoin(dir, name) == joinSegments(dir) \o name

defaultOutputDir == <<".", "output">>
defaultDocxTemplatePath == "template/GA-Application-Template-Version-1.61-December-2024 (1).docx"

(***************************************************************************)
(* schemas.ts: the zod schemas and the two schema validators.  A schema is *)
(* the list of its keys in declaration order, each with the kind of value  *)
(* it takes and the message of its check.  safeParse follows zod: a value  *)
(* of the wrong type is an invalid_type issue that aborts the object it is *)
(* in, a failed min(1) or email check is an issue that does not, unknown   *)
(* keys are stripped from the parsed data, and a refinement runs unless    *)
(* the object was aborted.                                                 *)
(***************************************************************************)
Key(key, kind, message) == [key |-> key, kind |-> kind, message |-> message]

TimestampSchema ==
    <<Key("seconds", "number", ""), Key("nanoseconds", "number", "")>>

ProjectOwnerSchema ==
    <<Key("firstName", "string", "First name is required"),
      Key("lastName", "string", "Last name is required"),
      Key("role", "string", "Role is required"),
      Key("contactPhoneCountry", "string", "Contact phone country is required"),
      Key("contactPhoneType", "string", "Contact phone type is required"),
      Key("phone", "string", "Phone is required"),
      Key("email", "email", "Invalid email format")>>

CoreActivitySchema ==
    <<Key("name", "string", "Core activity name is required"),
      Key("description", "string", "Core activity description is required"),
      Key("startDate", "string", "Core activity start date is required"),
      Key("endDate", "string", "Core activity end date is required"),
      Key("uncertainties", "string", "Core activity uncertainties is required"),
      Key("approach", "string", "Core activity approach is required"),
      Key("intentions", "string", "Core activity intentions is required")>>

\* the schema with the key spelled 'definition'
SupportingActivitySchemaRespelled ==
    <<Key("name", "string", "Supporting activity name is required"),
      Key("description", "string", "Supporting activity description is required"),
      Key("startDate", "string", "Supporting activity start date is required"),
      Key("endDate", "string", "Supporting activity end date is required"),
      Key("definition", "string", "Supporting activity definition is required")>>

SupportingActivitySchema ==
    <<Key("name", "string", "Supporting activity name is required"),
      Key("description", "string", "Supporting activity description is required"),
      Key("startDate", "string", "Supporting activity start date is required"),
      Key("endDate", "string", "Supporting activity end date is required"),
      Key("definiition", "string", "Supporting activity definition is required")>>

ProjectInputSchema ==
    <<Key("uid", "string", "Project UID is required"),
      Key("name", "string", "Project name is required"),
      Key("description", "optional", ""),
      Key("projectDescription", "optional", ""),
      Key("customerName", "optional", ""),
      Key("projectName", "optional", ""),
      Key("estimatedSpend", "optional", ""),
      Key("fundingYes", "optional", ""),
      Key("fundingNo", "optional", ""),
      Key("SupportingYes", "optional", ""),
      Key("SupportingNo", "optional", ""),
      Key("startDate", "string", "Start date is required"),
      Key("endDate", "string", "End date is required"),
      Key("createdAt", "TimestampSchema", ""),
      Key("status", "string", "Status is required"),
      Key("companyId", "string", "Company ID is required"),
      Key("anzsrc", "string", "ANZSRC code is required"),
      Key("projectOwner", "ProjectOwnerSchema", ""),
      Key("coreActivities", "CoreActivitySchema[]", "At least one core activity is required"),
      Key("supportingActivities", "SupportingActivitySchema[]", "")>>

\* z.object schemas by name, and the element schema of each z.array
objectSchemas ==
    [TimestampSchema |-> TimestampSchema, ProjectOwnerSchema |-> ProjectOwnerSchema,
     CoreActivitySchema |-> CoreActivitySchema,
     SupportingActivitySchema |-> SupportingActivitySchema,
     ProjectInputSchema |-> ProjectInputSchema,
     ProjectsPayloadSchema |-> <<Key("projects", "ProjectInputSchema[]", "")>>]

arraySchemas ==
    [x \in {"CoreActivitySchema[]", "SupportingActivitySchema[]", "ProjectInputSchema[]"} |->
        CASE x = "CoreActivitySchema[]" -> "CoreActivitySchema"
          [] x = "SupportingActivitySchema[]" -> "SupportingActivitySchema"
          [] x = "ProjectInputSchema[]" -> "ProjectInputSchema"]

\* the outcome of parsing one value: the issues raised, and whether the value was of
\* the wrong type (which aborts the enclosing object or array)
zodValid == [issues |-> <<>>, aborted |-> FALSE]

zodIssue(path, message) == [path |-> path, message |-> message]

\* invalid_type: 'Required' for undefined, else 'Expected <type>, received <type>'
invalidType(expected, v, path) ==
    [issues |-> <<zodIssue(path, IF v.t = "undefined" THEN "Required"
                                 ELSE "Expected " \o expected \o ", received " \o v.t)>>,
     aborted |-> TRUE]

\* too_small / invalid_string with the schema's message
checkFailed(path, message) == [issues |-> <<zodIssue(path, message)>>, aborted |-> FALSE]

zodMerge(a, b) == [issues |-> a.issues \o b.issues, aborted |-> a.aborted \/ b.aborted]

\* z.string().email(): one '@' with text before it, and after it a domain with a dot
\* inside and no white space anywhere
isEmail(s) ==
    LET at == {k \in 1..Len(s) : SubSeq(s, k, k) = "@"}
    IN  /\ Cardinality(at) = 1
        /\ \A k \in 1..Len(s) : ~isWhiteSpace(SubSeq(s, k, k))
        /\ LET a == CHOOSE k \in at : TRUE
           IN  /\ a > 1
               /\ \E d \in (a + 2)..(Len(s) - 1) : SubSeq(s, d, d) = "."
               /\ SubSeq(s, Len(s), Len(s)) # "."

\* (data) => data.description || data.projectDescription
refineDescription(data) ==
    Truthy(getFieldValue(data, "description")) \/ Truthy(getFieldValue(data, "projectDescription"))

RECURSIVE safeParse(_, _, _, _)
RECURSIVE parseKeys(_, _, _, _)
RECURSIVE parseItems(_, _, _, _)

\* schema.safeParse(v) for the schema of the given kind, at the given path
safeParse(kind, message, v, path) ==
    CASE kind = "string" ->
           IF v.t # "string" THEN invalidType("string", v, path)
           ELSE IF Len(v.s) < 1 THEN checkFailed(path, message)
           ELSE zodValid
      [] kind = "optional" ->
           IF v.t \in {"undefined", "string"} THEN zodValid
           ELSE invalidType("string", v, path)
      [] kind = "email" ->
           IF v.t # "string" THEN invalidType("string", v, path)
           ELSE IF ~isEmail(v.s) THEN checkFailed(path, message)
           ELSE zodValid
      [] kind = "number" ->
           IF v.t # "number" THEN invalidType("number", v, path) ELSE zodValid
      [] kind \in DOMAIN objectSchemas ->
           IF v.t # "object" THEN invalidType("object", v, path)
           ELSE LET inner == parseKeys(objectSchemas[kind], v, path, 1)
                IN  IF kind = "ProjectInputSchema" /\ ~inner.aborted /\ ~refineDescription(v)
                    THEN zodMerge(inner,
                                  checkFailed(Append(path, "description"),
                                              "Either description or projectDescription is required"))
                    ELSE inner
      [] kind \in DOMAIN arraySchemas ->
           IF v.t # "array" THEN invalidType("array", v, path)
           ELSE zodMerge(IF message # "" /\ Len(v.items) < 1
                         THEN checkFailed(path, message) ELSE zodValid,
                         parseItems(arraySchemas[kind], v.items, path, 1))

\* the keys of a z.object from the k-th on
parseKeys(schema, v, path, k) ==
    IF k > Len(schema) THEN zodValid
    ELSE zodMerge(safeParse(schema[k].kind, schema[k].message,
                            getFieldValue(v, schema[k].key), Append(path, schema[k].key)),
                  parseKeys(schema, v, path, k + 1))

\* the elements of a z.array from the idx-th (1-based) on
parseItems(kind, items, path, idx) ==
    IF idx > Len(items) THEN zodValid
    ELSE zodMerge(safeParse(kind, "", items[idx], Append(path, ToString(idx - 1))),
                  parseItems(kind, items, path, idx + 1))

RECURSIVE parsedData(_, _)
\* result.data of a successful parse: the value with unknown keys stripped
parsedData(kind, v) ==
    IF kind \in DOMAIN objectSchemas
    THEN LET schema == objectSchemas[kind]
             kindOf(key) == (CHOOSE k \in Range(schema) : k.key = key).kind
         IN  Obj([key \in {k.key : k \in Range(schema)} \cap DOMAIN v.f |->
                     parsedData(kindOf(key), v.f[key])])
    ELSE IF kind \in DOMAIN arraySchemas
    THEN Arr([i \in 1..Len(v.items) |-> parsedData(arraySchemas[kind], v.items[i])])
    ELSE v

RECURSIVE joinDots(_)
\* issue.path.join('.')
joinDots(path) ==
    IF Len(path) = 0 THEN ""
    ELSE IF Len(path) = 1 THEN path[1]
    ELSE path[1] \o "." \o joinDots(Tail(path))

\* result.error.issues.map((issue) => `${prefix}${issue.path.join('.')}: ${issue.message}`)
issueTexts(issues, prefix) ==
    [i \in 1..Len(issues) |-> prefix \o joinDots(issues[i].path) \o ": " \o issues[i].message]

validateProjectWithZod(input) ==
    LET result == safeParse("ProjectInputSchema", "", input, <<>>)
    IN  IF Len(result.issues) = 0
        THEN [success |-> TRUE, data |-> parsedData("ProjectInputSchema", input)]
        ELSE [success |-> FALSE, errors |-> issueTexts(result.issues, "")]

RECURSIVE listErrors(_, _)
\* the errors the loop over a list pushes, from the idx-th (1-based) element on:
\* `projects[${idx}].${issue.path.join('.')}: ${issue.message}`
listErrors(items, idx) ==
    IF idx > Len(items) THEN <<>>
    ELSE issueTexts(safeParse("ProjectInputSchema", "", items[idx], <<>>).issues,
                    "projects[" \o ToString(idx - 1) \o "].")
         \o listErrors(items, idx + 1)

validateProjectsInputWithZod(input) ==
    IF isArray(input)
    THEN LET errs == listErrors(input.items, 1)
         IN  IF Len(errs) > 0
             THEN [success |-> FALSE, errors |-> errs]
             ELSE [success |-> TRUE, data |-> parsedData("ProjectInputSchema[]", input)]
    ELSE LET payloadResult == safeParse("ProjectsPayloadSchema", "", input, <<>>)
         IN  IF Len(payloadResult.issues) = 0
             THEN [success |-> TRUE,
                   data |-> parsedData("ProjectsPayloadSchema", input).f.projects]
             ELSE [success |-> FALSE, errors |-> issueTexts(payloadResult.issues, "")]

(***************************************************************************)
(* Records the model runs on.  MinimalProject is the complete record of    *)
(* the test suites; the variants blank one required path of it.            *)
(***************************************************************************)
MaxSupporting == 2

MinimalOwner ==
    Obj([firstName |-> Str("John"), lastName |-> Str("Doe"), role |-> Str("Manager"),
         contactPhoneCountry |-> Str("+64"), contactPhoneType |-> Str("Mobile"),
         phone |-> Str("021-123-4567"), email |-> Str("john@example.com")])

MinimalCore(tag) ==
    Obj([name |-> Str("Core Activity " \o tag), description |-> Str("Core description"),
         startDate |-> Str("2024-01-01"), endDate |-> Str("2024-06-30"),
         uncertainties |-> Str("Some uncertainties"), approach |-> Str("Some approach"),
         intentions |-> Str("Some intentions")])

MinimalSupporting(tag) ==
    Obj([name |-> Str("Activity " \o tag), description |-> Str("Valid"),
         startDate |-> Str("2024-01-15"), endDate |-> Str("2024-03-31"),
         definiition |-> Str("D" \o tag)])

\* createMinimalProject({uid, supportingActivities: n activities})
MinimalProject(uid, n) ==
    Obj([uid |-> Str(uid), name |-> Str("Test Project"), description |-> Str("Test description"),
         startDate |-> Str("2024-01-01"), endDate |-> Str("2024-12-31"),
         createdAt |-> Obj([seconds |-> Num(1704067200), nanoseconds |-> Num(0)]),
         status |-> Str("Active"), companyId |-> Str("CMP-001"), anzsrc |-> Str("080101"),
         projectOwner |-> MinimalOwner,
         coreActivities |-> Arr(<<MinimalCore("1")>>),
         supportingActivities |-> Arr([i \in 1..n |-> MinimalSupporting(ToString(i))])])

\* the three ways a field can be missing: deleted, null, ''
Blanks == {"absent", "null", "empty"}

SetBlank(obj, key, b) ==
    CASE b = "absent" -> WithoutField(obj, key)
      [] b = "null" -> WithField(obj, key, Null)
      [] b = "empty" -> WithField(obj, key, Str(""))

\* arr with its (1-based) i-th element replaced
WithItem(arr, i, v) == Arr([arr.items EXCEPT ![i] = v])

RootVariants(base) ==
    {SetBlank(base, f, b) : f \in Range(requiredRootFields), b \in Blanks}

OwnerVariants(base) ==
    {WithField(base, "projectOwner", SetBlank(base.f.projectOwner, f, b)) :
        f \in Range(requiredOwnerFields), b \in Blanks}

CoreVariants(base) ==
    {WithField(base, "coreActivities",
               WithItem(base.f.coreActivities, 1, SetBlank(base.f.coreActivities.items[1], f, b))) :
        f \in Range(requiredCoreFields), b \in Blanks}

SupportingVariants(base) ==
    UNION {{WithField(base, "supportingActivities",
                      WithItem(base.f.supportingActivities, i,
                               SetBlank(base.f.supportingActivities.items[i], f, b))) :
               f \in Range(requiredSupportingFields), b \in Blanks} :
           i \in 1..Len(base.f.supportingActivities.items)}

\* description / projectDescription: absent, null, '' or text, independently
DescriptionValues(text) == {Undef, Null, Str(""), Str(text)}

SetValue(obj, key, v) == IF v = Undef THEN WithoutField(obj, key) ELSE WithField(obj, key, v)

DescriptionVariants(base) ==
    {SetValue(SetValue(base, "description", d), "projectDescription", pd) :
        d \in DescriptionValues("Test description"),
        pd \in DescriptionValues("Fallback description")}

\* shapes of coreActivities / supportingActivities other than a well-formed list
ShapeVariants(base) ==
    {WithField(base, "coreActivities", Arr(<<>>)),
     WithField(base, "coreActivities", Arr(<<MinimalCore("1"), MinimalCore("2")>>)),
     WithField(base, "coreActivities",
               Arr(<<MinimalCore("1"), SetBlank(MinimalCore("2"), "name", "empty")>>)),
     WithField(base, "coreActivities", Arr(<<Null>>)),
     WithField(base, "supportingActivities", Arr(<<Null>>)),
     WithField(base, "supportingActivities", Str("none"))}

ValidateInputs ==
    {Null, Undef}
    \cup UNION {LET base == MinimalProject("test-uid", n)
                IN  {base} \cup RootVariants(base) \cup OwnerVariants(base)
                    \cup CoreVariants(base) \cup SupportingVariants(base)
                    \cup DescriptionVariants(base) \cup ShapeVariants(base) :
                n \in 0..MaxSupporting}

(***************************************************************************)
(* Inputs of generateRDTIGADocx                                            *)
(***************************************************************************)
MaxBatch == 3

\* the record of the README's required-field list: no createdAt, no status
ReadmeProject(uid) ==
    WithoutField(WithoutField(MinimalProject(uid, 0), "createdAt"), "status")

BatchRecords ==
    {MinimalProject("p1", 0),
     MinimalProject("p2", 1),
     ReadmeProject("p1"),
     SetBlank(MinimalProject("p3", 0), "name", "empty"),
     SetBlank(MinimalProject("p4", 0), "uid", "absent"),
     SetBlank(MinimalProject("p4", 0), "uid", "empty"),
     WithField(SetBlank(MinimalProject("p4", 0), "uid", "null"), "projectName", Str("Alt name")),
     SetBlank(SetBlank(MinimalProject("p4", 0), "uid", "absent"), "name", "absent"),
     Null,
     WithField(MinimalProject("p5", 0), "coreActivities", Arr(<<Null>>)),
     WithField(MinimalProject("p6", 0), "supportingActivities", Str("none"))}

RECURSIVE SeqsUpTo(_, _)
\* the sequences over S of length at most n
SeqsUpTo(S, n) ==
    IF n = 0 THEN {<<>>}
    ELSE LET shorter == SeqsUpTo(S, n - 1)
         IN  shorter \cup {Append(b, r) : b \in shorter, r \in S}

Batches == SeqsUpTo(BatchRecords, MaxBatch)

\* a bare list, a {projects: [...]} wrapper, and the other shapes of the tests
GenerateInputs ==
    {List(1, b) : b \in Batches}
    \cup {Obj([projects |-> List(1, b)]) : b \in Batches}
    \cup {Null, Undef, Str("invalid"), Obj([data |-> Arr(<<>>)]),
          Obj([projects |-> Str("invalid")])}

\* DocxGenerateOptions: each option unset ({}) or set ({value})
OptionChoices ==
    {[outputDir |-> {}, dateFormat |-> {}, templatePath |-> {}],
     [outputDir |-> {<<"tmp", "out">>}, dateFormat |-> {"nzDate"},
      templatePath |-> {"custom.docx"}]}

\* option ?? fallback
OrDefault(option, fallback) == IF option = {} THEN fallback ELSE CHOOSE x \in option : TRUE

(***************************************************************************)
(* index.ts: generateRDTIGADocx, with renderDocxForProjects (docx.ts)      *)
(***************************************************************************)
\* `${value}`
templateText(v) ==
    CASE v.t = "string" -> v.s
      [] v.t = "number" -> ToString(v.n)
      [] v.t = "null" -> "null"
      [] v.t = "undefined" -> "undefined"
      [] OTHER -> "[object Object]"

IsError(issue) == issue.type = "error"

\* issues.map((i) => i.message), whatever the severity
projectErrorsOfEverySeverity(issues) == [i \in 1..Len(issues) |-> issues[i].message]

\* issues.filter((i) => i.type === 'error').map((i) => i.message)
projectErrorsOf(issues) ==
    LET kept == SelectSeq(issues, IsError)
    IN  [i \in 1..Len(kept) |-> kept[i].message]

\* project.uid || 'unknown'
projectIdOfUidOrUnknown(project) ==
    IF Truthy(getFieldValue(project, "uid")) THEN getFieldValue(project, "uid")
    ELSE Str("unknown")

\* project.uid ?? project.projectName ?? project.name ?? 'unknown'
projectIdOf(project) ==
    Coalesce(getFieldValue(project, "uid"),
             Coalesce(getFieldValue(project, "projectName"),
                      Coalesce(getFieldValue(project, "name"), Str("unknown"))))

\* errors.push(...projectErrors.map((err) => `${projectId}: ${err}`))
validationErrorEntries(project, projectErrors) ==
    [i \in 1..Len(projectErrors) |->
        templateText(projectIdOf(project)) \o ": " \o projectErrors[i]]

\* errors.push(`Project ${projectId}: ${errorMessage}`)
renderErrorEntry(projectId, errorMessage) ==
    "Project " \o templateText(projectId) \o ": " \o errorMessage

Event(op, i) == [op |-> op, i |-> i]

Init ==
    /\ projectsInput \in GenerateInputs
    /\ options \in OptionChoices
    /\ pc = "start"
    /\ projects = Undef
    /\ nextToValidate = 0
    /\ validProjects = <<>>
    /\ errors = <<>>
    /\ templateReads = 0
    /\ templateBuffer = Undef
    /\ madeDirs = {}
    /\ files = <<>>
    /\ nextToRender = 0
    /\ outputPaths = <<>>
    /\ results = <<>>
    /\ renderErrors = <<>>
    /\ log = <<>>
    /\ outcome = Returned(Undef)
    /\ vpc = "idle"
    /\ vinput = Undef
    /\ vresult = Returned(Undef)
    /\ called = "none"
    /\ args = Undef
    /\ ret = Undef

\* const projects = normalizeProjectsInput(projectsInput)
Normalize ==
    /\ pc = "start"
    /\ LET r == normalizeProjectsInput(projectsInput)
       IN  IF r.threw
           THEN /\ pc' = "thrown"
                /\ outcome' = r
                /\ UNCHANGED <<projects, nextToValidate>>
           ELSE /\ pc' = "validate"
                /\ projects' = r.value
                /\ nextToValidate' = 1
                /\ UNCHANGED outcome
    /\ UNCHANGED <<projectsInput, options, validProjects, errors, templateReads, templateBuffer,
                   madeDirs, files, nextToRender, outputPaths, results, renderErrors, log, vvars, pvars>>

\* the loop body after validateProject returned { project: validated, issues }:
\* the record's error messages go to errors, or the validated record to validProjects
validationStep(project, validation, errorList, validList) ==
    LET validated == validation.project
        projectErrors == projectErrorsOf(validation.issues)
    IN  IF ~Truthy(validated) \/ Len(projectErrors) > 0
        THEN [errors |-> errorList \o validationErrorEntries(project, projectErrors),
              validProjects |-> validList]
        ELSE [errors |-> errorList, validProjects |-> Append(validList, validated)]

\* one iteration of: for (const project of projects) { validateProject ... }
ValidateRecord ==
    /\ pc = "validate"
    /\ nextToValidate <= Len(projects.items)
    /\ LET project == projects.items[nextToValidate]
           r == validateProject(project)
       IN  IF r.threw
           THEN /\ pc' = "thrown"
                /\ outcome' = r
                /\ UNCHANGED <<nextToValidate, validProjects, errors>>
           ELSE LET step == validationStep(project, r.value, errors, validProjects)
                IN  /\ errors' = step.errors
                    /\ validProjects' = step.validProjects
                    /\ nextToValidate' = nextToValidate + 1
                    /\ UNCHANGED <<pc, outcome>>
    /\ UNCHANGED <<projectsInput, options, projects, templateReads, templateBuffer, madeDirs, files,
                   nextToRender, outputPaths, results, renderErrors, log, vvars, pvars>>

\* the gate letting a batch through when only some of its records are valid
validationBlocksOnlyWhenNoneValid(errorList, validList) == Len(validList) = 0

\* errors.length > 0 || validProjects.length === 0
validationBlocks(errorList, validList) == Len(errorList) > 0 \/ Len(validList) = 0

\* if (errors.length > 0 || validProjects.length === 0) return { status: 'error', ... }
ReturnValidationError ==
    /\ pc = "validate"
    /\ nextToValidate > Len(projects.items)
    /\ validationBlocks(errors, validProjects)
    /\ outcome' = Returned([status |-> "error",
                            docx_path |-> Null,
                            docx_paths |-> <<>>,
                            errors |-> IF Len(errors) > 0 THEN errors
                                       ELSE <<"No valid projects to render">>])
    /\ pc' = "done"
    /\ UNCHANGED <<projectsInput, options, projects, nextToValidate, validProjects, errors, templateReads,
                   templateBuffer, madeDirs, files, nextToRender, outputPaths, results,
                   renderErrors, log, vvars, pvars>>

\* const renderResult = await renderDocxForProjects(validProjects, {...})
CallRender ==
    /\ pc = "validate"
    /\ nextToValidate > Len(projects.items)
    /\ ~validationBlocks(errors, validProjects)
    /\ pc' = "render_entry"
    /\ UNCHANGED <<projectsInput, options, projects, nextToValidate, validProjects, errors, templateReads,
                   templateBuffer, madeDirs, files, nextToRender, outputPaths, results,
                   renderErrors, log, outcome, vvars, pvars>>

\* try { fs.readFileSync(templatePath) } catch (err) { ... } that goes on without a template
readTemplateSwallowsFailure(readable, templatePath) ==
    IF readable THEN Returned(Str("bytes of " \o templatePath)) ELSE Returned(Undef)

\* try { templateBuffer = fs.readFileSync(templatePath) } catch (err) { throw new TemplateError(...) }
readTemplate(readable, templatePath) ==
    IF readable
    THEN Returned(Str("bytes of " \o templatePath))
    ELSE Thrown("TemplateError",
                "Failed to load or parse template: " \o templatePath
                \o " - ENOENT: no such file or directory")

\* renderDocxForProjects: the empty-list check and the template load
LoadTemplate ==
    /\ pc = "render_entry"
    /\ IF Len(validProjects) = 0
       THEN /\ pc' = "thrown"
            /\ outcome' = Thrown("Error", "At least one project is required to render DOCX output")
            /\ UNCHANGED <<templateReads, templateBuffer, log>>
       ELSE LET templatePath == OrDefault(options.templatePath, defaultDocxTemplatePath)
            IN  \E readable \in BOOLEAN :
                   LET r == readTemplate(readable, templatePath)
                   IN  /\ templateReads' = templateReads + 1
                       /\ log' = Append(log, Event(IF readable THEN "readTemplate"
                                                   ELSE "readTemplateThrows", 0))
                       /\ IF r.threw
                          THEN /\ pc' = "thrown"
                               /\ outcome' = r
                               /\ UNCHANGED templateBuffer
                          ELSE /\ templateBuffer' = r.value
                               /\ pc' = "mkdir"
                               /\ UNCHANGED outcome
    /\ UNCHANGED <<projectsInput, options, projects, nextToValidate, validProjects, errors,
                   madeDirs, files, nextToRender, outputPaths, results, renderErrors, vvars, pvars>>

\* renderDocxForProjects: fs.mkdirSync(outputDir, { recursive: true })
EnsureOutputDir ==
    /\ pc = "mkdir"
    /\ LET outputDir == OrDefault(options.outputDir, defaultOutputDir)
       IN  \E writable \in BOOLEAN :
              IF writable
              THEN /\ madeDirs' = madeDirs \cup {outputDir}
                   /\ log' = Append(log, Event("mkdir", 0))
                   /\ pc' = "render"
                   /\ nextToRender' = 1
                   /\ UNCHANGED outcome
              ELSE /\ pc' = "thrown"
                   /\ outcome' = Thrown("FileSystemError",
                          "Failed to mkdir file: " \o pathJoin(outputDir, "")
                          \o " - EACCES: permission denied")
                   /\ UNCHANGED <<madeDirs, log, nextToRender>>
    /\ UNCHANGED <<projectsInput, options, projects, nextToValidate, validProjects, errors, templateReads,
                   templateBuffer, files, outputPaths, results, renderErrors, vvars, pvars>>

\* what doc.render(payload) and fs.writeFileSync(outputPath, buffer) can do
\* (an Error from docxtemplater or fs, or a thrown value that is not an Error)
RenderOutcomes == {"written", "renderThrows", "renderThrowsValue", "writeThrows"}

\* err instanceof Error ? err.message : `Unknown error rendering project ${projectId}`
errorMessageOf(isError, message, projectId) ==
    IF isError THEN message ELSE "Unknown error rendering project " \o templateText(projectId)

\* a loop body without the try/catch: the exception leaves renderDocxForProjects
renderCaughtRethrows(projectId, errorMessage, events) ==
    /\ pc' = "thrown"
    /\ outcome' = Thrown("Error", errorMessage)
    /\ log' = log \o events
    /\ UNCHANGED <<renderErrors, results, files, outputPaths, nextToRender>>

\* a catch that records the failure in results and not in errors
renderCaughtUnlisted(projectId, errorMessage, events) ==
    /\ results' = Append(results, [projectId |-> projectId, status |-> "error",
                                   error |-> errorMessage])
    /\ log' = log \o events
    /\ nextToRender' = nextToRender + 1
    /\ UNCHANGED <<renderErrors, files, outputPaths, pc, outcome>>

\* catch (err) { errors.push(`Project ${projectId}: ${errorMessage}`); results.push({... 'error' ...}) }
\* and on to the next record
renderCaught(projectId, errorMessage, events) ==
    /\ renderErrors' = Append(renderErrors, renderErrorEntry(projectId, errorMessage))
    /\ results' = Append(results, [projectId |-> projectId, status |-> "error",
                                   error |-> errorMessage])
    /\ log' = log \o events
    /\ nextToRender' = nextToRender + 1
    /\ UNCHANGED <<files, outputPaths, pc, outcome>>

\* a success branch that puts the new path at the front of outputPaths
renderWrittenPathFirst(projectId, outputPath, payload) ==
    /\ files' = (outputPath :> [payload |-> payload, template |-> templateBuffer,
                                record |-> nextToRender]) @@ files
    /\ outputPaths' = <<outputPath>> \o outputPaths
    /\ results' = Append(results, [projectId |-> projectId, status |-> "success",
                                   outputPath |-> outputPath])
    /\ log' = log \o <<Event("shape", nextToRender), Event("render", nextToRender),
                       Event("write", nextToRender)>>
    /\ nextToRender' = nextToRender + 1
    /\ UNCHANGED <<renderErrors, pc, outcome>>

\* fs.writeFileSync(outputPath, buffer); outputPaths.push(outputPath); results.push({... 'success' ...})
renderWritten(projectId, outputPath, payload) ==
    /\ files' = (outputPath :> [payload |-> payload, template |-> templateBuffer,
                                record |-> nextToRender]) @@ files
    /\ outputPaths' = Append(outputPaths, outputPath)
    /\ results' = Append(results, [projectId |-> projectId, status |-> "success",
                                   outputPath |-> outputPath])
    /\ log' = log \o <<Event("shape", nextToRender), Event("render", nextToRender),
                       Event("write", nextToRender)>>
    /\ nextToRender' = nextToRender + 1
    /\ UNCHANGED <<renderErrors, pc, outcome>>

\* one iteration of: for (const project of projects) { try { ... } catch (err) { ... } }
RenderRecord ==
    /\ pc = "render"
    /\ nextToRender <= Len(validProjects)
    /\ LET project == validProjects[nextToRender]
           projectId == getFieldValue(project, "uid")
           dateFormat == OrDefault(options.dateFormat, "default")
           outputDir == OrDefault(options.outputDir, defaultOutputDir)
           outputPath == pathJoin(outputDir, "RDTI_GA_" \o templateText(projectId) \o ".docx")
       IN  IF buildDocxTemplatePayloadThrows(project)
           THEN renderCaught(projectId,
                             errorMessageOf(TRUE, "project.supportingActivities.map is not a function",
                                            projectId),
                             <<Event("shapeThrows", nextToRender)>>)
           ELSE \E o \in RenderOutcomes :
                   CASE o = "written" ->
                          renderWritten(projectId, outputPath,
                                        buildDocxTemplatePayload(project, dateFormat))
                     [] o = "renderThrows" ->
                          renderCaught(projectId, errorMessageOf(TRUE, "Multi error", projectId),
                                       <<Event("shape", nextToRender),
                                         Event("renderThrows", nextToRender)>>)
                     [] o = "renderThrowsValue" ->
                          renderCaught(projectId, errorMessageOf(FALSE, "", projectId),
                                       <<Event("shape", nextToRender),
                                         Event("renderThrows", nextToRender)>>)
                     [] o = "writeThrows" ->
                          renderCaught(projectId,
                                       errorMessageOf(TRUE, "ENOSPC: no space left on device, write",
                                                      projectId),
                                       <<Event("shape", nextToRender),
                                         Event("render", nextToRender),
                                         Event("writeThrows", nextToRender)>>)
    /\ UNCHANGED <<projectsInput, options, projects, nextToValidate, validProjects, errors,
                   templateReads, templateBuffer, madeDirs, vvars, pvars>>

\* docx_path taken from the end of the list
docxPathOfLast(paths) == IF Len(paths) > 0 THEN Str(paths[Len(paths)]) ELSE Null

\* renderResult.outputPaths[0] ?? null
docxPathOf(paths) == IF Len(paths) > 0 THEN Str(paths[1]) ELSE Null

\* a status that reports success whenever the renderer returned
statusOfReturned(paths) == "success"

\* renderResult.outputPaths.length > 0 ? 'success' : 'error'
statusOf(paths) == IF Len(paths) > 0 THEN "success" ELSE "error"

\* renderDocxForProjects returns; generateRDTIGADocx assembles its result
ReturnResult ==
    /\ pc = "render"
    /\ nextToRender > Len(validProjects)
    /\ outcome' = Returned([status |-> statusOf(outputPaths),
                            docx_path |-> docxPathOf(outputPaths),
                            docx_paths |-> outputPaths,
                            errors |-> errors \o renderErrors])
    /\ pc' = "done"
    /\ UNCHANGED <<projectsInput, options, projects, nextToValidate, validProjects, errors, templateReads,
                   templateBuffer, madeDirs, files, nextToRender, outputPaths, results,
                   renderErrors, log, vvars, pvars>>

Next ==
    \/ Normalize
    \/ ValidateRecord
    \/ ReturnValidationError
    \/ CallRender
    \/ LoadTemplate
    \/ EnsureOutputDir
    \/ RenderRecord
    \/ ReturnResult

Spec == Init /\ [][Next]_vars

(***************************************************************************)
(* validateProject applied to one raw record.                              *)
(***************************************************************************)
VInit ==
    /\ vpc = "idle"
    /\ vinput = Undef
    /\ vresult = Returned(Undef)
    /\ projectsInput = Undef
    /\ options = [outputDir |-> {}, dateFormat |-> {}, templatePath |-> {}]
    /\ pc = "idle"
    /\ projects = Undef
    /\ nextToValidate = 0
    /\ validProjects = <<>>
    /\ errors = <<>>
    /\ templateReads = 0
    /\ templateBuffer = Undef
    /\ madeDirs = {}
    /\ files = <<>>
    /\ nextToRender = 0
    /\ outputPaths = <<>>
    /\ results = <<>>
    /\ renderErrors = <<>>
    /\ log = <<>>
    /\ outcome = Returned(Undef)
    /\ called = "none"
    /\ args = Undef
    /\ ret = Undef

CallValidateProject ==
    /\ vpc = "idle"
    /\ \E record \in ValidateInputs :
          /\ vinput' = record
          /\ vresult' = validateProject(record)
    /\ vpc' = "returned"
    /\ UNCHANGED <<gvars, pvars>>

VNext == CallValidateProject

SpecValidate == VInit /\ [][VNext]_vars

(***************************************************************************)
(* The parts of the pipeline called on their own: formatYesNo, the two     *)
(* validators and the payload shaper on one record, batch schema           *)
(* validation, and the validation step of generateRDTIGADocx.              *)
(***************************************************************************)
\* Boolish = boolean | string | null | undefined: the tokens in several spellings,
\* padded tokens, and strings that are no token
SignalStrings ==
    {"yes", "Yes", "YES", "y", "Y", "true", "TRUE", "1", "x", "X", "checked", "Checked",
     "ok", "OK", "no", "No", "NO", "n", "N", "false", "False", "0",
     " yes ", "\tNo", "TRUE\n", "", " ", "maybe", "yess", "on", "2", "nope"}

Boolishes == {Undef, Null, Bool(TRUE), Bool(FALSE)} \cup {Str(x) : x \in SignalStrings}

\* fallback?: boolean
Fallbacks == {Undef, Bool(TRUE), Bool(FALSE)}

\* records the schema treats differently from the rule-based validator: an ill-formed
\* email, a createdAt that is no seconds/nanoseconds pair, values of another type
SchemaVariants(base) ==
    {WithField(base, "projectOwner", WithField(base.f.projectOwner, "email", Str("invalid-email"))),
     WithField(base, "projectOwner", WithField(base.f.projectOwner, "email", Str("john@example"))),
     WithField(base, "createdAt", Str("2024-01-01T00:00:00Z")),
     WithField(base, "createdAt", Num(1704067200)),
     WithField(base, "createdAt", Obj([seconds |-> Str("1704067200"), nanoseconds |-> Num(0)])),
     WithField(base, "uid", Num(42)),
     WithField(base, "customerName", Null),
     WithField(base, "customerName", Str("Customer")),
     WithField(base, "estimatedSpend", Str("$10,000")),
     WithField(base, "projectName", Str("Display name"))}

\* SupportingYes / SupportingNo / fundingYes of a record: unset or one of these
RecordSignals ==
    {Undef, Null, Bool(TRUE), Bool(FALSE), Str("yes"), Str("No"), Str(" YES "), Str(""),
     Str("maybe")}

SignalVariants(base) ==
    {SetValue(SetValue(base, "SupportingYes", y), "SupportingNo", n) :
        y \in RecordSignals, n \in RecordSignals}
    \cup {SetValue(SetValue(base, "fundingYes", y), "fundingNo", n) :
             y \in {Undef, Str("x"), Str("maybe")}, n \in {Undef, Str("0")}}

MaxListed == 3

\* supporting activities that differ in every field, some carrying numbers of their own
ListedActivities ==
    {MinimalSupporting("A"),
     WithField(WithField(MinimalSupporting("B"), "ActivityNumber", Str("9")), "id", Num(7)),
     Obj([name |-> Str("Zeta"), description |-> Str("Other"), startDate |-> Str("2023-02-01"),
          endDate |-> Str("2023-09-30"), definiition |-> Str("D"), definition |-> Str("E"),
          ActivityNumber |-> Str("1")])}

ListedVariants(base) ==
    {WithField(base, "supportingActivities", Arr(acts)) :
        acts \in SeqsUpTo(ListedActivities, MaxListed)}

\* free text carrying inline math, emphasis markers and runs of white space
MarkupTexts == {"Uses $x^2$ and *bold* text", "a  _b_\n~c~", " ~plain~ "}

\* records whose free-text fields carry markup
MarkupVariants(base) ==
    {WithField(base, "description", Str(text)) : text \in MarkupTexts}
    \cup {WithField(WithoutField(base, "description"), "projectDescription", Str(text)) :
             text \in MarkupTexts}
    \cup {WithField(base, "coreActivities",
                    WithItem(base.f.coreActivities, 1,
                             WithField(base.f.coreActivities.items[1], f, Str(text)))) :
             f \in {"description", "uncertainties", "approach", "intentions"},
             text \in MarkupTexts}
    \cup UNION {{WithField(base, "supportingActivities",
                           WithItem(base.f.supportingActivities, i,
                                    WithField(base.f.supportingActivities.items[i], f, Str(text)))) :
                    f \in {"description", "definiition"}, text \in MarkupTexts} :
                i \in 1..Len(base.f.supportingActivities.items)}

RecordInputs ==
    ValidateInputs
    \cup UNION {LET base == MinimalProject("test-uid", n)
                IN  SchemaVariants(base) \cup SignalVariants(base) \cup MarkupVariants(base) :
                n \in 0..MaxSupporting}
    \cup ListedVariants(MinimalProject("test-uid", 0))

DateFormats == {"default", "nzDate"}

\* buildDocxTemplatePayload(project, format) as generateRDTIGADocx reaches it: on the
\* normalized record of a validation with no error-severity issue
shapeValidated(validation, dateFormat) ==
    IF validation.threw \/ Len(SelectSeq(validation.value.issues, IsError)) > 0
    THEN [shaped |-> FALSE]
    ELSE IF buildDocxTemplatePayloadThrows(validation.value.project)
    THEN [shaped |-> TRUE, threw |-> TRUE]
    ELSE [shaped |-> TRUE, threw |-> FALSE,
          payload |-> buildDocxTemplatePayload(validation.value.project, dateFormat)]

\* validateProject, validateProjectWithZod and the shaper applied to one raw record
onRecord(project, dateFormat) ==
    [validation |-> validateProject(project),
     schema |-> validateProjectWithZod(project),
     shape |-> shapeValidated(validateProject(project), dateFormat)]

\* a core activity whose every value occurs nowhere else in a record
OtherCore(tag) ==
    Obj([name |-> Str("Hidden name " \o tag), description |-> Str("Hidden description " \o tag),
         startDate |-> Str("1999-01-0" \o tag), endDate |-> Str("1999-12-0" \o tag),
         uncertainties |-> Str("Hidden uncertainties " \o tag),
         approach |-> Str("Hidden approach " \o tag),
         intentions |-> Str("Hidden intentions " \o tag)])

\* what may follow the first core activity: nothing, complete activities, activities
\* with missing or empty fields, an empty object, null
CoreTails ==
    {<<>>, <<OtherCore("2")>>, <<OtherCore("2"), OtherCore("3")>>,
     <<SetBlank(OtherCore("2"), "name", "empty")>>,
     <<SetBlank(OtherCore("2"), "description", "absent")>>,
     <<SetBlank(OtherCore("2"), "startDate", "null")>>,
     <<Obj([name |-> Str("Hidden name 2")])>>, <<Null>>, <<MinimalCore("1")>>}

\* the first core activity of a record: complete, with another name, or with a field
\* missing
FirstCores ==
    {MinimalCore("1"), MinimalCore("other"), SetBlank(MinimalCore("1"), "approach", "empty")}

\* records to compare: they share everything but coreActivities
TwinRecords ==
    {WithField(MinimalProject("test-uid", n), "coreActivities", Arr(<<first>> \o tail)) :
        n \in {0, MaxSupporting}, first \in FirstCores, tail \in CoreTails}

MaxSchemaBatch == 2

\* records of a batch handed to schema validation
SchemaBatchRecords ==
    {MinimalProject("test-uid", 0),
     MinimalProject("test-uid-2", 1),
     SetBlank(MinimalProject("test-uid", 0), "uid", "empty"),
     SetBlank(MinimalProject("test-uid", 0), "uid", "absent"),
     WithField(MinimalProject("test-uid", 1), "supportingActivities",
               Arr(<<SetBlank(MinimalSupporting("1"), "definiition", "empty")>>)),
     SetValue(SetValue(MinimalProject("test-uid", 0), "description", Undef),
              "projectDescription", Undef),
     WithField(MinimalProject("test-uid", 0), "projectOwner",
               WithField(MinimalOwner, "email", Str("invalid-email"))),
     Null,
     Str("p1")}

\* a bare list, a {projects: [...]} wrapper, and values that are neither
SchemaBatchInputs ==
    {Arr(b) : b \in SeqsUpTo(SchemaBatchRecords, MaxSchemaBatch)}
    \cup {Obj([projects |-> Arr(b)]) : b \in SeqsUpTo(SchemaBatchRecords, MaxSchemaBatch)}
    \cup {Obj([notProjects |-> Arr(<<>>)]), Null, Str("invalid"),
          Obj([projects |-> Str("invalid")])}

MaxIssues == 3

\* ValidationIssue: { field, message, type: 'error' | 'warning' }
StepIssues ==
    {Issue("name", "Missing field: name", "error"),
     Issue("estimatedSpend", "Missing field: estimatedSpend", "warning"),
     Issue("customerName", "Missing field: customerName", "warning")}

\* what validateProject may hand to the loop body: a normalized record and its issues
StepValidations ==
    {[project |-> validateProject(r).value.project, issues |-> issues] :
        r \in {MinimalProject("p1", 0), SetBlank(MinimalProject("p2", 1), "uid", "absent")},
        issues \in SeqsUpTo(StepIssues, MaxIssues)}

\* errors collected from the records before this one
StepErrors == {<<>>, <<"p0: Missing field: anzsrc">>}

MaxText == 4

\* the characters the sanitizer treats differently, and one it leaves alone
TextAlphabet == {"$", "*", "_", "~", " ", "\n", "a"}

RECURSIVE TextsUpTo(_)
TextsUpTo(n) ==
    IF n = 0 THEN {""}
    ELSE TextsUpTo(n - 1) \cup {c \o text : c \in TextAlphabet, text \in TextsUpTo(n - 1)}

\* value: string | undefined | null, and what an untyped caller may pass
SanitizeInputs ==
    {Undef, Null, Num(0), Num(42), Bool(TRUE), Bool(FALSE), Arr(<<Str("a")>>),
     Obj([text |-> Str("a")])}
    \cup {Str(text) : text \in TextsUpTo(MaxText)}

PInit ==
    /\ VInit

CallFormatYesNo ==
    /\ called = "none"
    /\ \E yes \in Boolishes, no \in Boolishes, fallback \in Fallbacks :
          /\ args' = [yes |-> yes, no |-> no, fallback |-> fallback]
          /\ ret' = formatYesNo(yes, no, fallback)
    /\ called' = "formatYesNo"
    /\ UNCHANGED <<gvars, vvars>>

CallOnRecord ==
    /\ called = "none"
    /\ \E project \in RecordInputs, dateFormat \in DateFormats :
          /\ args' = [project |-> project, dateFormat |-> dateFormat]
          /\ ret' = onRecord(project, dateFormat)
    /\ called' = "onRecord"
    /\ UNCHANGED <<gvars, vvars>>

\* the validator and the shaper applied to two records
CallOnTwoRecords ==
    /\ called = "none"
    /\ \E a \in TwinRecords, b \in TwinRecords, dateFormat \in DateFormats :
          /\ args' = [a |-> a, b |-> b, dateFormat |-> dateFormat]
          /\ ret' = [a |-> onRecord(a, dateFormat), b |-> onRecord(b, dateFormat)]
    /\ called' = "onTwoRecords"
    /\ UNCHANGED <<gvars, vvars>>

CallValidateProjectsInputWithZod ==
    /\ called = "none"
    /\ \E input \in SchemaBatchInputs :
          /\ args' = [input |-> input]
          /\ ret' = validateProjectsInputWithZod(input)
    /\ called' = "validateProjectsInputWithZod"
    /\ UNCHANGED <<gvars, vvars>>

\* the loop body of generateRDTIGADocx on one validated record
CallValidationStep ==
    /\ called = "none"
    /\ \E validation \in StepValidations, errorList \in StepErrors,
          validList \in {<<>>, <<MinimalProject("p0", 0)>>} :
          /\ args' = [project |-> validation.project, validation |-> validation,
                      errors |-> errorList, validProjects |-> validList]
          /\ ret' = validationStep(validation.project, validation, errorList, validList)
    /\ called' = "validationStep"
    /\ UNCHANGED <<gvars, vvars>>

\* sanitizePlainText(value), and sanitizePlainText applied to its own result
CallSanitizePlainText ==
    /\ called = "none"
    /\ \E value \in SanitizeInputs :
          /\ args' = [value |-> value]
          /\ ret' = [once |-> sanitizePlainText(value),
                     twice |-> sanitizePlainText(sanitizePlainText(value))]
    /\ called' = "sanitizePlainText"
    /\ UNCHANGED <<gvars, vvars>>

PNext ==
    \/ CallSanitizePlainText
    \/ CallFormatYesNo
    \/ CallOnRecord
    \/ CallOnTwoRecords
    \/ CallValidateProjectsInputWithZod
    \/ CallValidationStep

SpecParts == PInit /\ [][PNext]_vars

(***************************************************************************)
(* Properties of validateProject                                           *)
(***************************************************************************)
IsBlank(v) == v \in {Undef, Null, Str("")}

\* number of error-severity issues whose field is path
ErrorCount(issues, path) ==
    Cardinality({i \in 1..Len(issues) : issues[i].field = path /\ issues[i].type = "error"})

\* every required path of a record with the value found there: root fields, owner
\* fields when there is an owner, fields of coreActivities[0] when there is one,
\* fields of each supporting activity
RequiredPaths(input) ==
    LET owner == getFieldValue(input, "projectOwner")
        core == getFieldValue(input, "coreActivities")
        sup == getFieldValue(input, "supportingActivities")
    IN  {[path |-> f, value |-> getFieldValue(input, f)] : f \in Range(requiredRootFields)}
        \cup (IF owner.t = "object"
              THEN {[path |-> "projectOwner." \o f, value |-> getFieldValue(owner, f)] :
                       f \in Range(requiredOwnerFields)}
              ELSE {})
        \cup (IF isArray(core) /\ Len(core.items) > 0
              THEN {[path |-> "coreActivities[0]." \o f,
                     value |-> getFieldValue(core.items[1], f)] :
                       f \in Range(requiredCoreFields)}
              ELSE {})
        \cup (IF isArray(sup)
              THEN UNION {{[path |-> "supportingActivities[" \o ToString(i - 1) \o "]." \o f,
                            value |-> getFieldValue(sup.items[i], f)] :
                              f \in Range(requiredSupportingFields)} :
                          i \in 1..Len(sup.items)}
              ELSE {})

\* the path's value is absent, null or '' (for coreActivities also: not a non-empty list)
PathMissing(p) ==
    \/ IsBlank(p.value)
    \/ p.path = "coreActivities" /\ ~(isArray(p.value) /\ Len(p.value.items) > 0)

VReturned == vpc = "returned" /\ ~vresult.threw

\* C9 as claimed: a missing required path yields exactly one error-severity issue on
\* that path, and a path that is present and non-empty yields none.
C9_ExactlyOneIssuePerMissingPath ==
    VReturned =>
        \A p \in RequiredPaths(vinput) :
            ErrorCount(vresult.value.issues, p.path) = (IF PathMissing(p) THEN 1 ELSE 0)

\* C9 amended: a missing required path yields exactly one error-severity issue on that
\* path, except that coreActivities absent, null or '' yields exactly two (the
\* root-field check and the core-activity check both report it); a path that is present
\* and non-empty yields none.
C9_RequiredFieldCompleteness ==
    VReturned =>
        \A p \in RequiredPaths(vinput) :
            ErrorCount(vresult.value.issues, p.path) =
                (IF p.path = "coreActivities" /\ IsBlank(p.value) THEN 2
                 ELSE IF PathMissing(p) THEN 1 ELSE 0)

\* C9 witness: coreActivities was blanked in an otherwise complete record and
\* validateProject reported it twice, and nothing else
C9_Witness ==
    /\ VReturned
    /\ vinput.t = "object"
    /\ IsBlank(getFieldValue(vinput, "coreActivities"))
    /\ ErrorCount(vresult.value.issues, "coreActivities") = 2
    /\ Len(vresult.value.issues) = 2

\* C10: description null/undefined with a non-empty projectDescription X normalizes to
\* X with no issue on description; description '' stays '' with an error issue on
\* description whatever projectDescription holds; both empty or absent is an error
\* issue on description.
C10_DescriptionFallbackAsymmetry ==
    VReturned =>
        LET d == getFieldValue(vinput, "description")
            pd == getFieldValue(vinput, "projectDescription")
            normalized == getFieldValue(vresult.value.project, "description")
            n == ErrorCount(vresult.value.issues, "description")
        IN  /\ (isNullish(d) /\ pd.t = "string" /\ pd.s # "") => (normalized = pd /\ n = 0)
            /\ d = Str("") => (normalized = Str("") /\ n = 1)
            /\ (IsBlank(d) /\ IsBlank(pd)) => n = 1

\* C10 witness: description is '' while projectDescription holds text, and the
\* normalized description stayed '' with the error raised
C10_Witness ==
    /\ VReturned
    /\ getFieldValue(vinput, "description") = Str("")
    /\ getFieldValue(vinput, "projectDescription") = Str("Fallback description")
    /\ getFieldValue(vresult.value.project, "description") = Str("")
    /\ ErrorCount(vresult.value.issues, "description") = 1

(***************************************************************************)
(* Properties of generateRDTIGADocx                                        *)
(***************************************************************************)
BatchItems == projects.items

\* validateProject returns for the record, with no error-severity issue
RecordValid(r) ==
    ~validateProject(r).threw /\ Len(projectErrorsOf(validateProject(r).value.issues)) = 0

\* validateProject returns for the record, with at least one error-severity issue
RecordInvalid(r) ==
    ~validateProject(r).threw /\ Len(projectErrorsOf(validateProject(r).value.issues)) > 0

ValidationMessages(r) == Range(projectErrorsOf(validateProject(r).value.issues))

ThrowEvents == {"readTemplateThrows", "shapeThrows", "renderThrows", "writeThrows"}

RecordEvents == {"shape", "shapeThrows", "render", "renderThrows", "write", "writeThrows"}

\* the template loaded and every record that reached the renderer was written
NoIoFailure == \A k \in 1..Len(log) : log[k].op \notin ThrowEvents

\* generateRDTIGADocx returned a result
Done == pc = "done"

ResultOf == outcome.value

OutputDir == OrDefault(options.outputDir, defaultOutputDir)

OutputPathFor(r) ==
    pathJoin(OutputDir, "RDTI_GA_" \o templateText(getFieldValue(r, "uid")) \o ".docx")

\* the render loop raised an exception while handling the k-th valid record
ThrownAt(k) == \E n \in 1..Len(log) : log[n].i = k /\ log[n].op \in ThrowEvents

\* C1 as claimed: in a batch of valid and invalid records (each carrying createdAt and
\* status), with the template loadable and storage working, docx_paths holds an output
\* for every valid record and errors holds entries for the invalid records only.
C1_ValidRecordsRenderedBesideInvalid ==
    (/\ Done
     /\ NoIoFailure
     /\ \E i \in 1..Len(BatchItems) : RecordValid(BatchItems[i])
     /\ \E i \in 1..Len(BatchItems) : RecordInvalid(BatchItems[i])
     /\ \A i \in 1..Len(BatchItems) :
           ~IsBlank(getFieldValue(BatchItems[i], "createdAt"))
           /\ ~IsBlank(getFieldValue(BatchItems[i], "status"))) =>
        LET valid == SelectSeq(BatchItems, RecordValid)
        IN  /\ ResultOf.docx_paths = [k \in 1..Len(valid) |-> OutputPathFor(valid[k])]
            /\ \A e \in Range(ResultOf.errors) :
                  \E i \in 1..Len(BatchItems) :
                     /\ RecordInvalid(BatchItems[i])
                     /\ \E m \in ValidationMessages(BatchItems[i]) :
                           e = templateText(projectIdOf(BatchItems[i])) \o ": " \o m

\* C2: an exception raised while shaping, rendering or writing record k is caught and
\* recorded as an error entry and an 'error' outcome for k, the records after k are
\* still processed, and the call returns a result.
C2_RenderFailureIsolated ==
    \A k \in 1..Len(validProjects) :
        ThrownAt(k) =>
            /\ pc \in {"render", "done"}
            /\ k <= Len(results)
            /\ results[k].status = "error"
            /\ ("Project " \o templateText(getFieldValue(validProjects[k], "uid")) \o ": "
                   \o results[k].error) \in Range(renderErrors)
            /\ Done =>
                  /\ ~outcome.threw
                  /\ Len(results) = Len(validProjects)
                  /\ \A j \in (k + 1)..Len(validProjects) :
                        /\ \E n \in 1..Len(log) : log[n].i = j /\ log[n].op \in RecordEvents
                        /\ ~ThrownAt(j) =>
                              /\ results[j].status = "success"
                              /\ results[j].outputPath \in DOMAIN files
                  /\ \A e \in Range(renderErrors) : e \in Range(ResultOf.errors)

\* C2 witness: the first of two records failed in the renderer and the second was
\* written afterwards
C2_Witness ==
    /\ Done
    /\ Len(validProjects) = 2
    /\ ThrownAt(1)
    /\ results[1].status = "error"
    /\ results[2].status = "success"
    /\ ResultOf.docx_paths = <<results[2].outputPath>>

\* C3: status is 'success' only if at least one record was rendered to an output file
\* and no record of the batch produced an error-severity validation issue.
C3_SuccessOnlyIfRenderedAndNoBlockingError ==
    (Done /\ ResultOf.status = "success") =>
        /\ Len(outputPaths) >= 1
        /\ \A k \in 1..Len(outputPaths) : outputPaths[k] \in DOMAIN files
        /\ \A i \in 1..Len(BatchItems) : RecordValid(BatchItems[i])

\* C3 witness: a batch of two records returned 'success'
C3_Witness ==
    /\ Done
    /\ ResultOf.status = "success"
    /\ Len(BatchItems) = 2
    /\ Len(outputPaths) >= 1

\* C4 as claimed: the single record of the README's required fields (no createdAt, no
\* status) yields status 'success', docx_path '<dir>/RDTI_GA_p1.docx', docx_paths
\* holding that one path, and no errors.
C4_ReadmeRecordRenders ==
    (Done /\ NoIoFailure /\ BatchItems = <<ReadmeProject("p1")>>) =>
        ResultOf = [status |-> "success",
                    docx_path |-> Str(pathJoin(OutputDir, "RDTI_GA_p1.docx")),
                    docx_paths |-> <<pathJoin(OutputDir, "RDTI_GA_p1.docx")>>,
                    errors |-> <<>>]

\* the messages the render loop can record for a record
RenderMessages(r) ==
    {"project.supportingActivities.map is not a function", "Multi error",
     "ENOSPC: no space left on device, write",
     "Unknown error rendering project " \o templateText(getFieldValue(r, "uid"))}

\* the entries of errors that were produced for a record
RecordEntries == Range(ResultOf.errors) \ {"No valid projects to render"}

C6_ThrowsOnlyForBatchFatal ==
    pc = "thrown" =>
        \/ outcome = Thrown("Error", InvalidInputShape)
        \/ outcome.error \in {"TemplateError", "FileSystemError"}

\* C7: the template is read once, before any record is shaped or rendered, and the
\* bytes read are used for every record; when the read fails the call fails with a
\* template-load error and nothing was rendered or written.
C7_TemplateReadOnceBeforeRecords ==
    /\ templateReads <= 1
    /\ (\E n \in 1..Len(log) : log[n].op \in RecordEvents) =>
          /\ templateReads = 1
          /\ log[1] = Event("readTemplate", 0)
          /\ templateBuffer # Undef
    /\ \A path \in DOMAIN files : files[path].template = templateBuffer
    /\ (\E n \in 1..Len(log) : log[n].op = "readTemplateThrows") =>
          /\ pc = "thrown"
          /\ outcome.error = "TemplateError"
          /\ DOMAIN files = {}
          /\ Len(results) = 0
          /\ Len(outputPaths) = 0
          /\ \A n \in 1..Len(log) : log[n].op \notin RecordEvents

\* C7 witness: two records were written from one read of the template
C7_Witness ==
    /\ Done
    /\ templateReads = 1
    /\ Len(outputPaths) = 2
    /\ \A k \in 1..2 : files[outputPaths[k]].template = templateBuffer

\* C8: normalizeProjectsInput returns the very list it is given, or the projects list
\* of a wrapper object, and throws the invalid-input-shape error for any other value.
C8_NormalizeReturnsSameList ==
    pc # "start" =>
        IF projectsInput.t = "array" THEN projects = projectsInput
        ELSE IF projectsInput.t = "object" /\ "projects" \in DOMAIN projectsInput.f
                /\ projectsInput.f.projects.t = "array"
        THEN projects = projectsInput.f.projects
        ELSE pc = "thrown" /\ outcome = Thrown("Error", InvalidInputShape)

\* C8 witness: a wrapper holding two records was normalized to its own list
C8_Witness ==
    /\ pc = "validate"
    /\ projectsInput.t = "object"
    /\ projects = projectsInput.f.projects
    /\ Len(projects.items) = 2

(***************************************************************************)
(* Properties of formatYesNo                                               *)
(***************************************************************************)
AffirmativeTokens == {"yes", "y", "true", "1", "x", "checked", "ok"}
NegativeTokens == {"no", "n", "false", "0"}

\* a and b are the same text up to the case of their letters
EqualsIgnoreCase(a, b) ==
    /\ Len(a) = Len(b)
    /\ \A k \in 1..Len(a) :
          LET x == SubSeq(a, k, k)
              y == SubSeq(b, k, k)
          IN  \/ x = y
              \/ \E j \in 1..26 :
                    {x, y} = {SubSeq("ABCDEFGHIJKLMNOPQRSTUVWXYZ", j, j),
                              SubSeq("abcdefghijklmnopqrstuvwxyz", j, j)}

\* white space around a token
Paddings == {"", " ", "\t", "\n"}

\* what a signal says, "affirmative", "negative" or "none", when a string is a token up
\* to case and up to one of the given paddings on each side
SignalOf(v, paddings) ==
    LET Spells(tokens) ==
            \E tok \in tokens, pre \in paddings, post \in paddings :
                EqualsIgnoreCase(v.s, pre \o tok \o post)
    IN  IF v.t = "boolean" THEN (IF v.b THEN "affirmative" ELSE "negative")
        ELSE IF v.t # "string" THEN "none"
        ELSE IF Spells(AffirmativeTokens) THEN "affirmative"
        ELSE IF Spells(NegativeTokens) THEN "negative"
        ELSE "none"

Inverted(sig) == IF sig = "affirmative" THEN "negative" ELSE "affirmative"

\* the decision order of the resolver over signals read with the given paddings
DecisionOf(yes, no, fallback, paddings) ==
    IF SignalOf(yes, paddings) # "none" THEN SignalOf(yes, paddings)
    ELSE IF SignalOf(no, paddings) # "none" THEN Inverted(SignalOf(no, paddings))
    ELSE IF fallback = Bool(TRUE) THEN "affirmative"
    ELSE IF fallback = Bool(FALSE) THEN "negative"
    ELSE "undecided"

TextsOf(decision) ==
    CASE decision = "affirmative" -> [yesText |-> "YES", noText |-> ""]
      [] decision = "negative" -> [yesText |-> "", noText |-> "NO"]
      [] decision = "undecided" -> [yesText |-> "Yes", noText |-> "No"]

\* C12 as claimed: formatYesNo decides by the yes signal when it is a boolean or a token
\* (yes/y/true/1/x/checked/ok, no/n/false/0) up to case, else by the inverted no
\* signal, else by the fallback, else is undecided; the texts are {YES,''}, {'',NO}
\* and {Yes,No}.
C12_DecisionOrderOverTokens ==
    called = "formatYesNo" =>
        ret = TextsOf(DecisionOf(args.yes, args.no, args.fallback, {""}))

\* C12 amended: the same decision order and texts, where a string is a recognised
\* signal when it is a token up to case after the white space around it is removed.
C12_DecisionOrderOverTrimmedTokens ==
    called = "formatYesNo" =>
        ret = TextsOf(DecisionOf(args.yes, args.no, args.fallback, Paddings))

\* C12 witness: a padded affirmative yes signal decided the result against a negative
\* no signal and a negative fallback
C12_Witness ==
    /\ called = "formatYesNo"
    /\ args = [yes |-> Str(" yes "), no |-> Str("yes"), fallback |-> Bool(FALSE)]
    /\ ret = [yesText |-> "YES", noText |-> ""]

(***************************************************************************)
(* Properties of the two validators                                        *)
(***************************************************************************)
OnRecord == called = "onRecord"

\* the values of an object (none for null)
ValuesOf(obj) == IF obj.t = "object" THEN {obj.f[k] : k \in DOMAIN obj.f} ELSE {}

\* the record has an owner whose email has the email shape, and a createdAt made of a
\* numeric seconds and a numeric nanoseconds
WellFormedEmailAndTimestamp(r) ==
    LET owner == getFieldValue(r, "projectOwner")
        email == getFieldValue(owner, "email")
        createdAt == getFieldValue(r, "createdAt")
    IN  /\ email.t = "string" /\ isEmail(email.s)
        /\ getFieldValue(createdAt, "seconds").t = "number"
        /\ getFieldValue(createdAt, "nanoseconds").t = "number"

\* validateProject returned, with no error-severity issue
RuleBasedAccepts(validation) ==
    ~validation.threw /\ \A i \in 1..Len(validation.value.issues) :
                             validation.value.issues[i].type # "error"

\* every value the record holds is of the type ProjectInput declares for it: texts,
\* an owner and activities made of texts, lists of activities
OfDeclaredTypes(r) ==
    LET AllTexts(obj) == obj.t = "object" /\ \A v \in ValuesOf(obj) : v.t = "string"
        ListOfTexts(v) == isArray(v) /\ \A i \in 1..Len(v.items) : AllTexts(v.items[i])
        nested == {"createdAt", "projectOwner", "coreActivities", "supportingActivities"}
    IN  /\ r.t = "object"
        /\ \A k \in DOMAIN r.f \ nested : r.f[k].t = "string"
        /\ AllTexts(getFieldValue(r, "projectOwner"))
        /\ ListOfTexts(getFieldValue(r, "coreActivities"))
        /\ ListOfTexts(getFieldValue(r, "supportingActivities"))

\* C11 as claimed: for a record (of the declared types) with a well-formed owner email
\* and a numeric createdAt, validateProject reports no error-severity issue exactly
\* when validateProjectWithZod returns success.
C11_ValidatorsAgreeOnAcceptance ==
    (OnRecord /\ OfDeclaredTypes(args.project) /\ WellFormedEmailAndTimestamp(args.project)
     /\ ~ret.validation.threw) =>
        (RuleBasedAccepts(ret.validation) <=> ret.schema.success)

(***************************************************************************)
(* Properties of buildDocxTemplatePayload                                  *)
(***************************************************************************)
\* the record was valid and the shaper returned its payload
Shaped == OnRecord /\ ret.shape.shaped /\ ~ret.shape.threw

Payload == ret.shape.payload

SupportingOf(r) == getFieldValue(r, "supportingActivities").items

\* neither SupportingYes nor SupportingNo of the record is a recognised signal
NoSupportingSignal(r) ==
    /\ SignalOf(getFieldValue(r, "SupportingYes"), Paddings) = "none"
    /\ SignalOf(getFieldValue(r, "SupportingNo"), Paddings) = "none"

\* C13: with neither SupportingYes nor SupportingNo a recognised signal, a record with
\* no supporting activity is shaped with SupportingYes '' and SupportingNo 'NO', and a
\* record with one or more with SupportingYes 'YES' and SupportingNo ''.
C13_SupportingFlagDefaultsToHasActivities ==
    (Shaped /\ NoSupportingSignal(args.project)) =>
        IF Len(SupportingOf(args.project)) = 0
        THEN Payload.SupportingYes = "" /\ Payload.SupportingNo = "NO"
        ELSE Payload.SupportingYes = "YES" /\ Payload.SupportingNo = ""

\* C13 witness: a record with two supporting activities, SupportingYes 'maybe' and
\* SupportingNo '' was shaped with the affirmative flag
C13_Witness ==
    /\ Shaped
    /\ getFieldValue(args.project, "SupportingYes") = Str("maybe")
    /\ getFieldValue(args.project, "SupportingNo") = Str("")
    /\ Len(SupportingOf(args.project)) = 2
    /\ Payload.SupportingYes = "YES" /\ Payload.SupportingNo = ""

\* the two records differ at most in the core activities after the first
SameButCoreTail(a, b) ==
    LET ca == getFieldValue(a, "coreActivities")
        cb == getFieldValue(b, "coreActivities")
    IN  /\ WithoutField(a, "coreActivities") = WithoutField(b, "coreActivities")
        /\ isArray(ca) /\ isArray(cb)
        /\ Len(ca.items) > 0 /\ Len(cb.items) > 0
        /\ ca.items[1] = cb.items[1]

\* the texts held by the core activities after the first and by no other part of the
\* record, as they are and as a date formatter would render them
LaterCoreValues(r, dateFormat) ==
    LET core == getFieldValue(r, "coreActivities").items
        later == UNION {ValuesOf(core[i]) : i \in 2..Len(core)}
        others == ValuesOf(core[1]) \cup ValuesOf(WithoutField(r, "coreActivities"))
        own == {v \in later \ others : v.t = "string" /\ v.s # ""}
    IN  own \cup {format(dateFormat, v) : v \in own}

\* every value a payload carries
PayloadValues(payload) ==
    {payload.customerName, payload.projectName, payload.projectDescription,
     payload.estimatedSpend, payload.startDate, payload.endDate, payload.anzsrc,
     payload.coreActivityName, payload.coreActivityStartDate, payload.coreActivityEndDate,
     payload.coreActivityDescription, payload.coreActivityUncertainties,
     payload.coreActivityApproach, payload.coreActivityIntentions,
     Str(payload.fundingYes), Str(payload.fundingNo),
     Str(payload.SupportingYes), Str(payload.SupportingNo)}
    \cup ValuesOf(payload.projectOwner)
    \cup UNION {{payload.supportingActivity[i].name, payload.supportingActivity[i].startDate,
                 payload.supportingActivity[i].endDate,
                 payload.supportingActivity[i].description,
                 payload.supportingActivity[i].definiition,
                 Str(payload.supportingActivity[i].ActivityNumber)} :
                   i \in 1..Len(payload.supportingActivity)}

OnTwoRecords == called = "onTwoRecords"

\* C14: two records that differ only in the core activities after the first get the same
\* issue list from validateProject and the same payload from buildDocxTemplatePayload,
\* and no value of a core activity after the first appears in the payload.
C14_LaterCoreActivitiesDoNotInterfere ==
    (OnTwoRecords /\ SameButCoreTail(args.a, args.b)) =>
        /\ ~ret.a.validation.threw /\ ~ret.b.validation.threw
        /\ ret.a.validation.value.issues = ret.b.validation.value.issues
        /\ ret.a.shape = ret.b.shape
        /\ (ret.a.shape.shaped /\ ~ret.a.shape.threw) =>
              /\ PayloadValues(ret.a.shape.payload)
                    \cap LaterCoreValues(args.a, args.dateFormat) = {}
              /\ PayloadValues(ret.b.shape.payload)
                    \cap LaterCoreValues(args.b, args.dateFormat) = {}

\* C14 witness: a record with one core activity and the same record with a second core
\* activity whose name is empty were both valid and shaped to the same payload
C14_Witness ==
    /\ OnTwoRecords
    /\ SameButCoreTail(args.a, args.b)
    /\ Len(getFieldValue(args.a, "coreActivities").items) = 1
    /\ Len(getFieldValue(args.b, "coreActivities").items) = 2
    /\ getFieldValue(getFieldValue(args.b, "coreActivities").items[2], "name") = Str("")
    /\ ret.a.shape.shaped /\ ~ret.a.shape.threw
    /\ ret.a.shape.payload = ret.b.shape.payload
    /\ ret.a.shape.payload.coreActivityName = Str("Core Activity 1")

\* schema validation succeeded on the record
SchemaData == ret.schema.data

\* C15: for every supporting activity whose definiition is a non-empty D, the payload's
\* entry at the same position carries D under the key 'definiition', and the data of a
\* successful validateProjectWithZod carries D under 'definiition' at the same
\* position; neither has the value under a key 'definition'.
C15_DefiniitionKeptVerbatim ==
    OnRecord =>
        LET sup == getFieldValue(args.project, "supportingActivities")
            Kept(i) == getFieldValue(sup.items[i], "definiition")
            HasText(i) == sup.items[i].t = "object" /\ Kept(i).t = "string" /\ Kept(i).s # ""
        IN  /\ (ret.shape.shaped /\ ~ret.shape.threw) =>
                  /\ Len(Payload.supportingActivity) = Len(sup.items)
                  /\ \A i \in 1..Len(sup.items) :
                        HasText(i) =>
                           /\ Payload.supportingActivity[i].definiition = Kept(i)
                           /\ "definition" \notin DOMAIN Payload.supportingActivity[i]
            /\ ret.schema.success =>
                  LET parsed == getFieldValue(SchemaData, "supportingActivities")
                  IN  /\ Len(parsed.items) = Len(sup.items)
                      /\ \A i \in 1..Len(sup.items) :
                            /\ getFieldValue(parsed.items[i], "definiition") = Kept(i)
                            /\ "definition" \notin DOMAIN parsed.items[i].f

\* C15 witness: an activity with definiition 'D' and a stray 'definition' key was
\* shaped and schema-validated with 'D' under 'definiition'
C15_Witness ==
    /\ Shaped
    /\ ret.schema.success
    /\ Len(SupportingOf(args.project)) = 2
    /\ getFieldValue(SupportingOf(args.project)[2], "definiition") = Str("D")
    /\ getFieldValue(SupportingOf(args.project)[2], "definition") = Str("E")
    /\ Payload.supportingActivity[2].definiition = Str("D")
    /\ getFieldValue(getFieldValue(SchemaData, "supportingActivities").items[2], "definiition")
          = Str("D")

\* the decimal text of 1, 2, 3, ...
Decimals == <<"1", "2", "3", "4", "5", "6", "7", "8", "9">>

\* C16: the payload lists as many supporting activities as the record, in the record's
\* order, and the entry at 0-based position i has ActivityNumber the decimal text of
\* i + 1, whatever the fields of the activities hold.
C16_ActivitiesNumberedByPosition ==
    Shaped =>
        LET sup == SupportingOf(args.project)
        IN  /\ Len(Payload.supportingActivity) = Len(sup)
            /\ \A i \in 1..Len(sup) :
                  /\ Payload.supportingActivity[i].ActivityNumber = Decimals[i]
                  /\ Payload.supportingActivity[i].name = getFieldValue(sup[i], "name")
                  /\ Payload.supportingActivity[i].description
                        = getFieldValue(sup[i], "description")

\* C16 witness: three activities, the first carrying ActivityNumber '9' and the last
\* ActivityNumber '1' of their own, were numbered 1, 2, 3 in input order
C16_Witness ==
    /\ Shaped
    /\ Len(SupportingOf(args.project)) = 3
    /\ getFieldValue(SupportingOf(args.project)[1], "ActivityNumber") = Str("9")
    /\ getFieldValue(SupportingOf(args.project)[3], "ActivityNumber") = Str("1")
    /\ [i \in 1..3 |-> Payload.supportingActivity[i].ActivityNumber] = <<"1", "2", "3">>
    /\ Payload.supportingActivity[1].name = Str("Activity B")

(***************************************************************************)
(* Properties of validateProjectsInputWithZod                              *)
(***************************************************************************)
\* the records of an accepted input form: a bare list or the list of a wrapper
SchemaBatchItems(input) ==
    IF isArray(input) THEN input.items
    ELSE IF input.t = "object" /\ isArray(getFieldValue(input, "projects"))
    THEN getFieldValue(input, "projects").items
    ELSE <<>>

AcceptedForm(input) ==
    isArray(input) \/ (input.t = "object" /\ isArray(getFieldValue(input, "projects")))

\* the '<dot-path>: <message>' strings schema validation produces for one record
RecordSchemaErrors(r) ==
    IF validateProjectWithZod(r).success THEN {} ELSE Range(validateProjectWithZod(r).errors)

\* C19 as claimed: for a bare list and for a {projects: [...]} wrapper alike, the
\* errors of batch schema validation are, for the record at index i, 'projects[i].'
\* followed by the record's dot-path and message.
C19_BatchErrorsPrefixedByIndex ==
    (called = "validateProjectsInputWithZod" /\ AcceptedForm(args.input)) =>
        LET items == SchemaBatchItems(args.input)
            expected == UNION {{"projects[" \o ToString(i - 1) \o "]." \o e :
                                  e \in RecordSchemaErrors(items[i])} : i \in 1..Len(items)}
        IN  IF expected = {} THEN ret.success
            ELSE ~ret.success /\ Range(ret.errors) = expected

(***************************************************************************)
(* Properties of the result of generateRDTIGADocx                          *)
(***************************************************************************)
\* C17: in every result, docx_path is the first element of docx_paths, or null when
\* docx_paths is empty, and errors holds every validation failure and every rendering
\* failure of the batch.
C17_ResultCarriesFirstPathAndAllFailures ==
    Done =>
        /\ IF Len(ResultOf.docx_paths) > 0
           THEN ResultOf.docx_path = Str(ResultOf.docx_paths[1])
           ELSE ResultOf.docx_path = Null
        /\ \A i \in 1..Len(BatchItems) :
              \A m \in ValidationMessages(BatchItems[i]) :
                 \E e \in Range(ResultOf.errors) :
                    e = templateText(projectIdOf(BatchItems[i])) \o ": " \o m
        /\ \A k \in 1..Len(validProjects) :
              ThrownAt(k) =>
                 \E e \in Range(ResultOf.errors) :
                    e = renderErrorEntry(getFieldValue(validProjects[k], "uid"), results[k].error)
        /\ Len(ResultOf.errors) >= Len(errors) + Len(renderErrors)

\* C17 witness: of three records the second failed in the renderer; docx_path is the
\* path of the first, docx_paths holds two paths and errors holds the failure
C17_Witness ==
    /\ Done
    /\ Len(validProjects) = 3
    /\ ThrownAt(2) /\ ~ThrownAt(1) /\ ~ThrownAt(3)
    /\ Len(ResultOf.docx_paths) = 2
    /\ ResultOf.docx_paths[1] # ResultOf.docx_paths[2]
    /\ ResultOf.docx_path = Str(ResultOf.docx_paths[1])
    /\ Len(ResultOf.errors) = 1

\* C18 as claimed: every successfully rendered record of a batch has its own output
\* file '<outputDir>/RDTI_GA_<uid>.docx': the entries of docx_paths are pairwise
\* distinct and the file of each such record still holds what was written for it,
\* also when two records carry the same uid.
C18_EachRenderedRecordHasOwnFile ==
    Done =>
        /\ \A j, k \in 1..Len(ResultOf.docx_paths) :
              j # k => ResultOf.docx_paths[j] # ResultOf.docx_paths[k]
        /\ \A k \in 1..Len(results) :
              results[k].status = "success" =>
                 /\ results[k].outputPath = OutputPathFor(validProjects[k])
                 /\ results[k].outputPath \in DOMAIN files
                 /\ files[results[k].outputPath].record = k

(***************************************************************************)
(* Properties of the validation step of generateRDTIGADocx                 *)
(***************************************************************************)
\* the record has issues, all of severity 'warning'
OnlyWarnings(issues) ==
    Len(issues) > 0 /\ \A i \in 1..Len(issues) : issues[i].type = "warning"

\* C20: a record whose issues are all of severity 'warning' is treated as valid: it is
\* added to the records to render, and no entry of errors is made from its warnings.
C20_WarningsDoNotBlock ==
    (called = "validationStep" /\ OnlyWarnings(args.validation.issues)) =>
        /\ ret.validProjects = Append(args.validProjects, args.validation.project)
        /\ ret.errors = args.errors
        /\ \A i \in 1..Len(args.validation.issues) :
              \A e \in Range(ret.errors) :
                 e # templateText(projectIdOf(args.project)) \o ": "
                        \o args.validation.issues[i].message

\* C20 witness: a record with two warnings went to the records to render
C20_Witness ==
    /\ called = "validationStep"
    /\ Len(args.validation.issues) = 2
    /\ OnlyWarnings(args.validation.issues)
    /\ args.errors = <<>>
    /\ ret.errors = <<>>
    /\ ret.validProjects = Append(args.validProjects, args.validation.project)

(***************************************************************************)
(* Properties of the normalized record                                     *)
(***************************************************************************)
\* the fields validateProject overlays on the raw record
OverlaidFields == {"description", "projectDescription"}

\* C21: for every raw record (an object), valid or not, validateProject returns a
\* defined normalized record whose every field other than description and
\* projectDescription equals the raw record's field, the raw record being unchanged.
C21_NormalizedRecordPassesFieldsThrough ==
    (vpc = "returned" /\ vinput.t = "object") =>
        /\ ~vresult.threw
        /\ vresult.value.project.t = "object"
        /\ DOMAIN vresult.value.project.f \ OverlaidFields = DOMAIN vinput.f \ OverlaidFields
        /\ \A key \in DOMAIN vinput.f \ OverlaidFields :
              getFieldValue(vresult.value.project, key) = getFieldValue(vinput, key)

(***************************************************************************)
(* Properties of the render loop of renderDocxForProjects                  *)
(***************************************************************************)
IsRecordEvent(e) == e.op \in RecordEvents

\* the events of the render loop, in the order they happened
RecordLog == SelectSeq(log, IsRecordEvent)

\* what the render loop did with the k-th record handed to it
EventsOf(k) ==
    LET OfRecord(e) == e.i = k
        events == SelectSeq(RecordLog, OfRecord)
    IN  [n \in 1..Len(events) |-> events[n].op]

\* the ways one iteration can run: to the file write, or up to the step that threw
CompletedRuns == {<<"shape", "render", "write">>}
FailedRuns == {<<"shapeThrows">>, <<"shape", "renderThrows">>, <<"shape", "render", "writeThrows">>}

IsSuccess(result) == result.status = "success"

\* the output paths of the successful entries of results, in the order of results
PathsOf(entries) ==
    LET written == SelectSeq(entries, IsSuccess)
    IN  [n \in 1..Len(written) |-> written[n].outputPath]

\* the normalized records of the valid records of a batch, in the order of the batch
NormalizedValid(items) ==
    LET valid == SelectSeq(items, RecordValid)
    IN  [n \in 1..Len(valid) |-> validateProject(valid[n]).value.project]

\* C22: records are rendered one at a time in input order: every event of record k
\* (its shaping, render and file write, or the failure recorded for it) precedes every
\* event of record k+1, each handled record ran to its write or to a recorded failure,
\* and the entries of outputPaths and of results are in the order of the input records.
C22_RecordsRenderedOneAtATimeInOrder ==
    /\ \A m, n \in 1..Len(RecordLog) : m < n => RecordLog[m].i <= RecordLog[n].i
    /\ \A k \in 1..Len(validProjects) :
          /\ k > Len(results) => EventsOf(k) = <<>>
          /\ k <= Len(results) =>
                /\ results[k].projectId = getFieldValue(validProjects[k], "uid")
                /\ IF IsSuccess(results[k])
                   THEN /\ EventsOf(k) \in CompletedRuns
                        /\ results[k].outputPath = OutputPathFor(validProjects[k])
                   ELSE /\ EventsOf(k) \in FailedRuns
                        /\ renderErrorEntry(results[k].projectId, results[k].error)
                              \in Range(renderErrors)
    /\ Len(results) <= Len(validProjects)
    /\ outputPaths = PathsOf(results)
    /\ pc \in {"render", "done"} => validProjects = NormalizedValid(BatchItems)
    /\ Done => ResultOf.docx_paths = PathsOf(results)

\* C22 witness: three records went through the loop, the second failing at its file
\* write; the failure was recorded before the third was shaped, and the two paths are
\* those of the first and the third record, in that order
C22_Witness ==
    /\ Done
    /\ Len(results) = 3
    /\ EventsOf(2) = <<"shape", "render", "writeThrows">>
    /\ EventsOf(3) = <<"shape", "render", "write">>
    /\ ResultOf.docx_paths = <<OutputPathFor(validProjects[1]), OutputPathFor(validProjects[3])>>
    /\ ResultOf.docx_paths[1] # ResultOf.docx_paths[2]

(***************************************************************************)
(* Properties of the dates of the payload                                  *)
(***************************************************************************)
\* what the injected formatter of DateFormats makes of a date text
InjectedFormatter(iso) == Str("nzDate(" \o iso.s \o ")")

\* the date the payload is to carry for an input date
ExpectedDate(iso) == IF args.dateFormat = "default" THEN iso ELSE InjectedFormatter(iso)

\* C23: every date of the shaped payload (project startDate/endDate, core activity
\* start/end date, each supporting activity's startDate/endDate) is the injected
\* formatter applied to the corresponding input date, and the input date itself when
\* no formatter is supplied.
C23_DatesPassThroughFormatter ==
    Shaped =>
        LET r == args.project
            core == getFieldValue(r, "coreActivities").items[1]
            sup == SupportingOf(r)
        IN  /\ Payload.startDate = ExpectedDate(getFieldValue(r, "startDate"))
            /\ Payload.endDate = ExpectedDate(getFieldValue(r, "endDate"))
            /\ Payload.coreActivityStartDate = ExpectedDate(getFieldValue(core, "startDate"))
            /\ Payload.coreActivityEndDate = ExpectedDate(getFieldValue(core, "endDate"))
            /\ \A i \in 1..Len(sup) :
                  /\ Payload.supportingActivity[i].startDate
                        = ExpectedDate(getFieldValue(sup[i], "startDate"))
                  /\ Payload.supportingActivity[i].endDate
                        = ExpectedDate(getFieldValue(sup[i], "endDate"))

\* C23 witness: a record with two differently dated supporting activities was shaped
\* with an injected formatter, and each date of the payload is the formatted input date
C23_Witness ==
    /\ Shaped
    /\ args.dateFormat = "nzDate"
    /\ Len(SupportingOf(args.project)) = 2
    /\ Payload.endDate = Str("nzDate(2024-12-31)")
    /\ Payload.coreActivityEndDate = Str("nzDate(2024-06-30)")
    /\ Payload.supportingActivity[1].startDate = Str("nzDate(2024-01-15)")
    /\ Payload.supportingActivity[2].endDate = Str("nzDate(2023-09-30)")

(***************************************************************************)
(* Properties of the free text of the payload                              *)
(***************************************************************************)
CoreFreeText == {"description", "uncertainties", "approach", "intentions"}
SupportingFreeText == {"description", "definiition"}

\* the free-text values of the payload, by the path of the input value each is taken from
PayloadFreeText(payload) ==
    [path \in {"core." \o f : f \in CoreFreeText} |->
        CASE path = "core.description" -> payload.coreActivityDescription
          [] path = "core.uncertainties" -> payload.coreActivityUncertainties
          [] path = "core.approach" -> payload.coreActivityApproach
          [] path = "core.intentions" -> payload.coreActivityIntentions]

\* C24 as claimed: every free-text value handed to the renderer (project description,
\* core activity description/uncertainties/approach/intentions, supporting activity
\* description/definiition) is sanitizePlainText of the input value, while the
\* normalized record of validateProject holds the values unsanitized.
C24_FreeTextSanitizedByRenderingStage ==
    Shaped =>
        LET r == args.project
            normalized == ret.validation.value.project
            core == getFieldValue(r, "coreActivities").items[1]
            sup == SupportingOf(r)
        IN  /\ Payload.projectDescription
                  = sanitizePlainText(Coalesce(getFieldValue(r, "projectDescription"),
                                               getFieldValue(r, "description")))
            /\ \A f \in CoreFreeText :
                  PayloadFreeText(Payload)["core." \o f] = sanitizePlainText(getFieldValue(core, f))
            /\ \A k \in 1..Len(sup) :
                  /\ Payload.supportingActivity[k].description
                        = sanitizePlainText(getFieldValue(sup[k], "description"))
                  /\ Payload.supportingActivity[k].definiition
                        = sanitizePlainText(getFieldValue(sup[k], "definiition"))
            /\ getFieldValue(normalized, "coreActivities") = getFieldValue(r, "coreActivities")
            /\ getFieldValue(normalized, "supportingActivities")
                  = getFieldValue(r, "supportingActivities")
            /\ getFieldValue(normalized, "description")
                  = Coalesce(getFieldValue(r, "description"), getFieldValue(r, "projectDescription"))

(***************************************************************************)
(* Properties of the gate between validation and rendering                 *)
(***************************************************************************)
\* renderDocxForProjects was entered, or left a trace of having run
RendererInvoked ==
    \/ pc \in {"render_entry", "mkdir", "render"}
    \/ templateReads > 0
    \/ madeDirs # {}
    \/ DOMAIN files # {}
    \/ log # <<>>
    \/ results # <<>>

\* the batch is empty or one of its records has an error-severity issue
BatchBlocked == Len(BatchItems) = 0 \/ \E i \in 1..Len(BatchItems) : RecordInvalid(BatchItems[i])

C26_StatusMatchesPathsAndErrors ==
    Done =>
        /\ ResultOf.status \in {"success", "error"}
        /\ ResultOf.status = "success" <=> Len(ResultOf.docx_paths) > 0
        /\ ResultOf.status = "error" => Len(ResultOf.errors) > 0
        /\ (Len(validProjects) = 0 /\ errors = <<>>) =>
              ResultOf.errors = <<"No valid projects to render">>
        /\ "No valid projects to render" \in Range(ResultOf.errors) =>
              (Len(validProjects) = 0 /\ errors = <<>>)

\* C26 witness: every record of a batch of two failed in the renderer, and the result is
\* an error result with no path and the two failures as its errors
C26_Witness ==
    /\ Done
    /\ Len(validProjects) = 2
    /\ ThrownAt(1) /\ ThrownAt(2)
    /\ ResultOf.status = "error"
    /\ ResultOf.docx_paths = <<>>
    /\ Len(ResultOf.errors) = 2

(***************************************************************************)
(* Properties of the result of renderDocxForProjects                       *)
(***************************************************************************)
\* renderDocxForProjects returned { outputPaths, results, errors }
RendererReturned == Done /\ nextToRender > Len(validProjects)

IsFailure(result) == result.status = "error"

\* C27: after renderDocxForProjects returns, results has one entry per record handed to
\* it, in their order; each entry is 'success' with an outputPath that is in outputPaths
\* or 'error' with a message whose entry 'Project <uid>: <message>' is in errors; and
\* length(outputPaths) + length(errors) is the number of records.
C27_EveryRecordAccountedOnce ==
    RendererReturned =>
        /\ Len(results) = Len(validProjects)
        /\ \A k \in 1..Len(results) :
              /\ results[k].projectId = getFieldValue(validProjects[k], "uid")
              /\ results[k].status \in {"success", "error"}
              /\ IsSuccess(results[k]) =>
                    /\ DOMAIN results[k] = {"projectId", "status", "outputPath"}
                    /\ results[k].outputPath \in Range(outputPaths)
              /\ IsFailure(results[k]) =>
                    /\ DOMAIN results[k] = {"projectId", "status", "error"}
                    /\ renderErrorEntry(results[k].projectId, results[k].error)
                          \in Range(renderErrors)
        /\ Len(SelectSeq(results, IsSuccess)) = Len(outputPaths)
        /\ Len(SelectSeq(results, IsFailure)) = Len(renderErrors)
        /\ Len(outputPaths) + Len(renderErrors) = Len(validProjects)

\* C27 witness: of three records the first and the last failed and the second was
\* written: three entries in results, one path and two errors
C27_Witness ==
    /\ RendererReturned
    /\ Len(validProjects) = 3
    /\ [k \in 1..3 |-> results[k].status] = <<"error", "success", "error">>
    /\ Len(outputPaths) = 1
    /\ Len(renderErrors) = 2
    /\ results[2].outputPath = outputPaths[1]

(***************************************************************************)
(* Properties of the description of the payload                            *)
(***************************************************************************)
\* C28 as claimed: for every record validateProject accepts, the projectDescription of
\* the payload built from the normalized record is a non-empty string, whatever
\* description and projectDescription hold (also projectDescription '' beside a
\* non-empty description).
C28_PayloadDescriptionNonEmpty ==
    Shaped =>
        /\ Payload.projectDescription.t = "string"
        /\ Payload.projectDescription.s # ""

(***************************************************************************)
(* Properties of the supporting-activity indicators of the payload         *)
(***************************************************************************)
\* C29 as claimed: in a shaped payload the boolean supportingActivities is true exactly
\* when SupportingYes is 'YES' and false exactly when SupportingNo is 'NO', whatever
\* SupportingYes/SupportingNo signals and number of supporting activities the record
\* has, and the pair of texts is never the undecided {Yes, No}.
C29_SupportingIndicatorsAgree ==
    Shaped =>
        /\ Payload.supportingActivities <=> Payload.SupportingYes = "YES"
        /\ ~Payload.supportingActivities <=> Payload.SupportingNo = "NO"
        /\ <<Payload.SupportingYes, Payload.SupportingNo>> # <<"Yes", "No">>

(***************************************************************************)
(* Properties of sanitizePlainText                                         *)
(***************************************************************************)
Sanitized == called = "sanitizePlainText"

\* C30 as claimed: sanitizePlainText(sanitizePlainText(s)) = sanitizePlainText(s) for
\* every string s, also one with a line break between two '$', and sanitizePlainText
\* returns '' for every value that is not a string.
C30_SanitizeIdempotent ==
    Sanitized =>
        /\ ret.twice = ret.once
        /\ args.value.t # "string" => ret.once = Str("")

=============================================================================
